---- MODULE Spec2Model ----
(***************************************************************************)
(* VoiceSampleExtractor (src/step6_voice_sample_extractor.py): the per-link *)
(* extraction loop, the duration resolver, the quality ladder and the       *)
(* Twitch VOD indirection, as a state machine.                              *)
(*                                                                          *)
(* Python strings are sequences of one-character strings.  The external     *)
(* tool (yt-dlp) and the filesystem are the environment: every outcome of   *)
(* a subprocess call is drawn with \E from the outcomes subprocess.run can  *)
(* produce.                                                                 *)
(***************************************************************************)
EXTENDS Integers, Sequences, FiniteSets

VARIABLES
    cfg,            \* the extractor's configuration (__init__)
    links,          \* confirmed_voice_links: the input list of link records
    i,              \* enumerate index of the link being processed (1-based)
    pc,             \* position of extract_voice_samples in its loop body
    optimal,        \* optimal_duration of the current link
    url_now,        \* url argument of the innermost _extract_twitch/youtube_sample
    rung,           \* number of ladder rungs already attempted for this link
    file_exists,    \* os.path.exists(output_path) for the current link
    attempts,       \* the rungs attempted for this link, in order (history)
    listings,       \* VOD-listing queries made for this link (history)
    last,           \* the latest downloader invocation and what line 192/258 saw
    result,         \* extraction_result of the current link
    extracted,      \* extracted_samples: indices of the links appended
    sleeps,         \* number of time.sleep(2) calls made so far
    probe,          \* what the duration probe of the current link came back with
    username,       \* username of the current link (line 44)
    safe_username,  \* safe_username of the current link (line 57)
    d_probe,        \* duration resolver harness: the probe outcome
    d_pc,           \* duration resolver harness: position
    d_total,        \* duration resolver harness: _parse_duration_string result
    d_optimal,      \* duration resolver harness: _get_optimal_duration result
    hashseed,       \* the process's string-hash seed (PYTHONHASHSEED)
    n_pc,           \* name harness: position
    n_link,         \* name harness: the link record whose username is resolved
    n_best,         \* name harness: _extract_best_username result
    n_raw,          \* name harness: the string handed to _sanitize_filename
    n_safe,         \* name harness: _sanitize_filename(n_raw)
    n_again,        \* name harness: _sanitize_filename(n_safe)
    n_rerun,        \* name harness: _extract_best_username in a later process
    p_pc,           \* pipeline driver: the stage main() is about to run
    p_run,          \* pipeline driver: runs of main() started so far
    p_store,        \* the persisted snapshot store, kept from run to run
    p_jobs,         \* remote scraping jobs created so far (the last id issued)
    p_valid_accounts, \* valid_accounts of the current run
    p_snapshot_id,  \* snapshot_id of the current run
    p_data,         \* the list the last stage of the current run produced
    p_calls,        \* snapshot calls the current run made, in order (history)
    p_ran,          \* stages whose processing the current run executed (history)
    p_nothing,      \* the first stage of the current run that yielded nothing
    l_pc,           \* ladder harness: position
    l_platform,     \* ladder harness: which sample extractor builds the ladder
    l_duration,     \* ladder harness: the duration argument
    l_options       \* ladder harness: quality_options as built

vars == <<cfg, links, i, pc, optimal, url_now, rung, file_exists, attempts,
          listings, last, result, extracted, sleeps, probe, username,
          safe_username, d_probe, d_pc, d_total, d_optimal,
          hashseed, n_pc, n_link, n_best, n_raw, n_safe, n_again, n_rerun,
          p_pc, p_run, p_store, p_jobs, p_valid_accounts, p_snapshot_id,
          p_data, p_calls, p_ran, p_nothing,
          l_pc, l_platform, l_duration, l_options>>

batchVars == <<links, i, pc, optimal, url_now, rung, file_exists, attempts,
               listings, last, result, extracted, sleeps, probe, username,
               safe_username>>

harnessVars == <<d_probe, d_pc, d_total, d_optimal>>

nameVars == <<hashseed, n_pc, n_link, n_best, n_raw, n_safe, n_again,
              n_rerun>>

pipeVars == <<p_pc, p_run, p_store, p_jobs, p_valid_accounts, p_snapshot_id,
              p_data, p_calls, p_ran, p_nothing>>

ladderVars == <<l_pc, l_platform, l_duration, l_options>>

\* everything a batch step leaves alone
notBatchVars == <<harnessVars, nameVars, pipeVars, ladderVars>>

\* everything a duration harness step leaves alone
notHarnessVars == <<batchVars, nameVars, pipeVars, ladderVars>>

\* everything a name harness step leaves alone
notNameVars == <<cfg, batchVars, harnessVars, pipeVars, ladderVars>>

\* everything a pipeline step leaves alone
notPipeVars == <<cfg, batchVars, harnessVars, nameVars, ladderVars>>

\* everything a ladder harness step leaves alone
notLadderVars == <<cfg, batchVars, harnessVars, nameVars, pipeVars>>

-----------------------------------------------------------------------------
(* Bounds of the model.                                                     *)

\* longest probe output enumerated character by character
MaxTokLen == 5

\* longest duration a ladder is built for
MaxDuration == 3900

\* longest input list of links
MaxLinks == 2

\* most VOD-listing queries followed for one link
MaxListings == 2

-----------------------------------------------------------------------------
(* Python string primitives.                                                *)

None == "None"

Digits == {"0", "1", "2", "3", "4", "5", "6", "7", "8", "9"}

Whitespace == {" ", "\n", "\t", "\r"}

DigitVal(c) ==
    CASE c = "0" -> 0 [] c = "1" -> 1 [] c = "2" -> 2 [] c = "3" -> 3
      [] c = "4" -> 4 [] c = "5" -> 5 [] c = "6" -> 6 [] c = "7" -> 7
      [] c = "8" -> 8 [] c = "9" -> 9

\* str.strip(): whitespace removed at both ends
RECURSIVE LStrip(_)
LStrip(s) ==
    IF s # <<>> /\ Head(s) \in Whitespace THEN LStrip(Tail(s)) ELSE s

RECURSIVE RStrip(_)
RStrip(s) ==
    IF s # <<>> /\ s[Len(s)] \in Whitespace
    THEN RStrip(SubSeq(s, 1, Len(s) - 1)) ELSE s

Strip(s) == RStrip(LStrip(s))

\* str.split(sep) for a one-character separator: never empty, "" gives [""]
RECURSIVE SplitAcc(_, _, _)
SplitAcc(s, sep, cur) ==
    IF s = <<>> THEN <<cur>>
    ELSE IF Head(s) = sep THEN <<cur>> \o SplitAcc(Tail(s), sep, <<>>)
    ELSE SplitAcc(Tail(s), sep, Append(cur, Head(s)))

Split(s, sep) == SplitAcc(s, sep, <<>>)

\* the digits of a decimal literal, read left to right ("_" separators skipped)
RECURSIVE DecimalAcc(_, _)
DecimalAcc(s, acc) ==
    IF s = <<>> THEN acc
    ELSE IF Head(s) = "_" THEN DecimalAcc(Tail(s), acc)
    ELSE DecimalAcc(Tail(s), 10 * acc + DigitVal(Head(s)))

\* digit ("_"? digit)* : the body int() accepts after the sign
IsDecimalBody(s) ==
    /\ s # <<>>
    /\ \A k \in 1..Len(s) : s[k] \in Digits \cup {"_"}
    /\ s[1] # "_" /\ s[Len(s)] # "_"
    /\ \A k \in 1..(Len(s) - 1) : ~(s[k] = "_" /\ s[k + 1] = "_")

Ok(v) == [ok |-> TRUE, val |-> v]

Raised == [ok |-> FALSE, val |-> 0]

\* int(str): surrounding whitespace, an optional sign, decimal digits;
\* anything else raises ValueError
PyInt(s) ==
    LET t == Strip(s)
        signed == t # <<>> /\ Head(t) \in {"+", "-"}
        body == IF signed THEN Tail(t) ELSE t
    IN  IF ~IsDecimalBody(body) THEN Raised
        ELSE IF signed /\ Head(t) = "-" THEN Ok(0 - DecimalAcc(body, 0))
        ELSE Ok(DecimalAcc(body, 0))

\* int(list) raises TypeError whatever the list holds
PyIntOfList(parts) == Raised

\* float(list) raises TypeError whatever the list holds
PyFloatOfList(parts) == Raised

PyMax(a, b) == IF a >= b THEN a ELSE b

PyMin(a, b) == IF a <= b THEN a ELSE b

-----------------------------------------------------------------------------
(* DurationResolver.                                                        *)

\* _parse_duration_string: the bare except turns every raise into 0
_parse_duration_string(duration_str) ==
    LET parts == Split(duration_str, ":")
    IN  IF Len(parts) = 3
        THEN LET h == PyInt(parts[1])
                 m == PyInt(parts[2])
                 s == PyInt(parts[3])
             IN  IF h.ok /\ m.ok /\ s.ok
                 THEN h.val * 3600 + m.val * 60 + s.val
                 ELSE 0
        ELSE IF Len(parts) = 2
        THEN LET m == PyIntOfList(parts)
                 s == PyInt(parts[2])
             IN  IF m.ok /\ s.ok THEN m.val * 60 + s.val ELSE 0
        ELSE LET f == PyFloatOfList(parts)
             IN  IF f.ok THEN f.val ELSE 0

\* A probe outcome: subprocess.run either raises (TimeoutExpired after 30 s,
\* OSError when the tool cannot be started) or completes with a return code
\* and its standard output.
ProbeRaised(p) == p.exc # None

\* the clamp with the lower bound forgotten
ClampDuration_upper_only(c, total_seconds) ==
    PyMin(total_seconds, c.max_duration)

\* the clamp with min and max applied in the other order
ClampDuration_swapped(c, total_seconds) ==
    PyMin(c.max_duration, PyMax(total_seconds, c.min_duration))

\* the clamp of line 104
ClampDuration(c, total_seconds) ==
    PyMax(c.min_duration, PyMin(total_seconds, c.max_duration))

\* _get_optimal_duration without the total_seconds > 0 test of line 102
_get_optimal_duration_unguarded(c, p) ==
    IF ProbeRaised(p) THEN c.max_duration
    ELSE IF p.returncode = 0 /\ Strip(p.stdout) # <<>>
    THEN ClampDuration(c, _parse_duration_string(Strip(p.stdout)))
    ELSE c.max_duration

\* _get_optimal_duration
_get_optimal_duration(c, p) ==
    IF ProbeRaised(p) THEN c.max_duration
    ELSE IF p.returncode = 0 /\ Strip(p.stdout) # <<>>
    THEN LET total_seconds == _parse_duration_string(Strip(p.stdout))
         IN  IF total_seconds > 0
             THEN ClampDuration(c, total_seconds)
             ELSE c.max_duration
    ELSE c.max_duration


-----------------------------------------------------------------------------
(* String literals, one character per element.                             *)

S_1_02_03 == <<"1", ":", "0", "2", ":", "0", "3">>

S_02_03 == <<"0", "2", ":", "0", "3">>

S_45 == <<"4", "5">>

S_garbage == <<"g", "a", "r", "b", "a", "g", "e">>

S_0_45 == <<"0", ":", "4", "5">>

S_0_00_45 == <<"0", ":", "0", "0", ":", "4", "5">>

S_sp_45_sp == <<" ", "4", "5", " ">>

S_1_0_0_sp == <<"1", ":", " ", "0", ":", "0", " ">>

S_1_00_01 == <<"1", ":", "0", "0", ":", "0", "1">>

S_0_00_45_nl == S_0_00_45 \o <<"\n">>

-----------------------------------------------------------------------------
(* Configurations the constructor accepts (__init__ checks nothing): the    *)
(* pipeline's own, a narrow range, and one with min_duration > max_duration.*)

Config(mn, mx, q) == [min_duration |-> mn, max_duration |-> mx, quality |-> q]

PipelineConfig == Config(30, 3600, "192")

Configs == {PipelineConfig, Config(60, 300, "192"), Config(300, 60, "192")}

\* config_example.py: the bitrates a deployment chooses its quality from
AUDIO_QUALITY_LEVELS == <<"192", "128", "96", "64">>

\* the extractor constructed with each of them (quality is a free parameter
\* of __init__, line 13)
LadderConfigs == {Config(30, 3600, AUDIO_QUALITY_LEVELS[k]) : k \in 1..4}

-----------------------------------------------------------------------------
(* Probe outcomes of the duration resolver harness.                         *)

TokAlphabet == {"0", "1", "5", ":", "-", "g"}

RECURSIVE StringsUpTo(_)
StringsUpTo(n) ==
    IF n = 0 THEN {<<>>}
    ELSE LET shorter == StringsUpTo(n - 1)
         IN  shorter \cup
             {Append(s, c) : s \in {t \in shorter : Len(t) = n - 1}, c \in TokAlphabet}

SampleTokens ==
    { S_1_02_03, S_02_03, S_45, S_garbage, S_0_45, S_0_00_45, S_0_00_45_nl,
      S_sp_45_sp, S_1_0_0_sp, S_1_00_01 }

Tokens == StringsUpTo(MaxTokLen) \cup SampleTokens

Completed(rc, out) == [exc |-> None, returncode |-> rc, stdout |-> out]

Raises(e) == [exc |-> e, returncode |-> 0, stdout |-> <<>>]

Probes ==
    {Completed(0, t) : t \in Tokens}
        \cup {Completed(1, t) : t \in {<<>>, S_0_45}}
        \cup {Raises("TimeoutExpired"), Raises("OSError")}

-----------------------------------------------------------------------------
(* The harness: one probe outcome put through lines 96-121.                 *)

\* lines 98-100: the output reaches _parse_duration_string only on exit 0
\* with non-blank output, and stripped
ParseProbe ==
    /\ d_pc = "probe"
    /\ ~ProbeRaised(d_probe)
    /\ d_probe.returncode = 0
    /\ Strip(d_probe.stdout) # <<>>
    /\ d_total' = _parse_duration_string(Strip(d_probe.stdout))
    /\ d_pc' = "parsed"
    /\ UNCHANGED <<cfg, d_probe, d_optimal>>
    /\ UNCHANGED notHarnessVars

\* the value _get_optimal_duration returns for the probe outcome
ResolveDuration ==
    /\ \/ d_pc = "parsed"
       \/ /\ d_pc = "probe"
          /\ \/ ProbeRaised(d_probe)
             \/ d_probe.returncode # 0
             \/ Strip(d_probe.stdout) = <<>>
    /\ d_optimal' = _get_optimal_duration(cfg, d_probe)
    /\ d_pc' = "done"
    /\ UNCHANGED <<cfg, d_probe, d_total>>
    /\ UNCHANGED notHarnessVars


U_youtube == <<"h", "t", "t", "p", "s", ":", "/", "/", "y", "o", "u", "t", "u", "b", "e", ".", "c", "o", "m", "/", "@", "c", "r", "e", "a", "t", "o", "r", "1", "/", "w", "a", "t", "c", "h", "?", "v", "=", "a", "b", "c">>

U_twitch_channel == <<"h", "t", "t", "p", "s", ":", "/", "/", "t", "w", "i", "t", "c", "h", ".", "t", "v", "/", "b", "o", "b">>

U_twitch_channel_slash == <<"h", "t", "t", "p", "s", ":", "/", "/", "t", "w", "i", "t", "c", "h", ".", "t", "v", "/", "b", "o", "b", "/">>

U_twitch_listing == <<"h", "t", "t", "p", "s", ":", "/", "/", "t", "w", "i", "t", "c", "h", ".", "t", "v", "/", "b", "o", "b", "/", "v", "i", "d", "e", "o", "s">>

U_twitch_vod == <<"h", "t", "t", "p", "s", ":", "/", "/", "t", "w", "i", "t", "c", "h", ".", "t", "v", "/", "v", "i", "d", "e", "o", "s", "/", "7", "7">>

U_twitch_clip == <<"h", "t", "t", "p", "s", ":", "/", "/", "t", "w", "i", "t", "c", "h", ".", "t", "v", "/", "b", "o", "b", "/", "c", "l", "i", "p", "/", "Z", "e", "d">>

U_vimeo == <<"h", "t", "t", "p", "s", ":", "/", "/", "v", "i", "m", "e", "o", ".", "c", "o", "m", "/", "5">>

P_youtube == <<"y", "o", "u", "t", "u", "b", "e">>

P_twitch == <<"t", "w", "i", "t", "c", "h">>

P_Vimeo == <<"V", "i", "m", "e", "o">>

P_unknown == <<"u", "n", "k", "n", "o", "w", "n">>

S_videos_dir == <<"/", "v", "i", "d", "e", "o", "s", "/">>

S_clip_dir == <<"/", "c", "l", "i", "p", "/">>

S_videos == <<"/", "v", "i", "d", "e", "o", "s">>


-----------------------------------------------------------------------------
(* More Python string primitives, used on URLs and platform names.          *)

\* sub in s
Contains(s, sub) ==
    \E k \in 0..(Len(s) - Len(sub)) : SubSeq(s, k + 1, k + Len(sub)) = sub

\* s.endswith(suf)
EndsWith(s, suf) ==
    Len(s) >= Len(suf) /\ SubSeq(s, Len(s) - Len(suf) + 1, Len(s)) = suf

\* s.rstrip(c) for one character c
RECURSIVE RStripChar(_, _)
RStripChar(s, c) ==
    IF s # <<>> /\ s[Len(s)] = c
    THEN RStripChar(SubSeq(s, 1, Len(s) - 1), c) ELSE s

UpperCase == <<"A", "B", "C", "D", "E", "F", "G", "H", "I", "J", "K", "L", "M",
               "N", "O", "P", "Q", "R", "S", "T", "U", "V", "W", "X", "Y", "Z">>

LowerCase == <<"a", "b", "c", "d", "e", "f", "g", "h", "i", "j", "k", "l", "m",
               "n", "o", "p", "q", "r", "s", "t", "u", "v", "w", "x", "y", "z">>

LowerChar(c) ==
    IF \E k \in 1..Len(UpperCase) : UpperCase[k] = c
    THEN LowerCase[CHOOSE k \in 1..Len(UpperCase) : UpperCase[k] = c]
    ELSE c

\* s.lower()
Lower(s) == [k \in 1..Len(s) |-> LowerChar(s[k])]

\* dict.get(key, default)
Get(d, key, default) == IF key \in DOMAIN d THEN d[key] ELSE default

\* dict.update(other)
\* an update that replaces the record by the new fields
Update_replacing(d, other) == other

Update(d, other) ==
    [k \in (DOMAIN d) \cup (DOMAIN other) |->
        IF k \in DOMAIN other THEN other[k] ELSE d[k]]

\* a value that is not a str (pandas hands a float NaN for a missing cell):
\* truthy, and without a lower() method
NaN == <<"float('nan')">>

\* the value dict.get returns for a key the record does not have (Python None)
NoValue == <<"None">>

IsStr(v) == v # NaN /\ v # NoValue

\* bool(v) for the values a link field can hold
Truthy(v) == v # <<>> /\ v # NoValue

-----------------------------------------------------------------------------
(* The input: lists of link records as the upstream stages hand them over.  *)

Link(u, p) == [url |-> u, platform_type |-> p]

N_alice == <<"a", "l", "i", "c", "e">>

LinkSet ==
    { Link(U_youtube, P_youtube),
      Link(U_twitch_channel, P_twitch),
      Link(U_twitch_listing, P_twitch),
      Link(<<>>, P_youtube),
      [url |-> U_vimeo, platform_type |-> P_Vimeo, username |-> N_alice],
      Link(U_youtube, NaN) }

\* the lists of up to n different links
RECURSIVE ListsUpTo(_)
ListsUpTo(n) ==
    IF n = 0 THEN {<<>>}
    ELSE LET shorter == ListsUpTo(n - 1)
         IN  shorter \cup
             UNION { {Append(l, x) : x \in LinkSet \ {l[k] : k \in 1..Len(l)}} :
                     l \in {t \in shorter : Len(t) = n - 1} }

\* the configuration of the batch runs: the pipeline's (main_pipeline.py 145-150)
BatchConfigs == {PipelineConfig}

\* probe outcomes of the batch runs
BatchProbes ==
    {Completed(0, S_0_00_45_nl), Completed(0, S_0_45)}

-----------------------------------------------------------------------------
(* QualityLadder.                                                           *)

\* the scaling without its floor of one
timeout_multiplier_unfloored(duration) == duration \div 300

\* line 160 / line 220
timeout_multiplier(duration) == PyMax(1, duration \div 300)

Rung(q, t) == [quality |-> q, timeout |-> t]

\* lines 162-167
youtube_quality_options(c, duration) ==
    << Rung(c.quality, 300 * timeout_multiplier(duration)),
       Rung("128", 240 * timeout_multiplier(duration)),
       Rung("96", 180 * timeout_multiplier(duration)),
       Rung("64", 120 * timeout_multiplier(duration)) >>

\* lines 222-227
twitch_quality_options(c, duration) ==
    << Rung(c.quality, 400 * timeout_multiplier(duration)),
       Rung("128", 350 * timeout_multiplier(duration)),
       Rung("96", 300 * timeout_multiplier(duration)),
       Rung("64", 250 * timeout_multiplier(duration)) >>

quality_options(platform, c, duration) ==
    IF platform = P_youtube THEN youtube_quality_options(c, duration)
    ELSE twitch_quality_options(c, duration)

\* One downloader invocation: subprocess.run raises (TimeoutExpired at the
\* rung's timeout, or another exception) or completes with a return code;
\* either way the tool may have written the output file before it ended.
Invoked(e, rc, w) == [exc |-> e, returncode |-> rc, wrote |-> w]

RunOutcomes ==
    {Invoked(None, rc, w) : rc \in {0, 1}, w \in BOOLEAN}
        \cup {Invoked("TimeoutExpired", 0, w) : w \in BOOLEAN}
        \cup {Invoked("OSError", 0, FALSE)}

\* the test with the exit code trusted alone
RungSucceeded_exit_code_only(o, exists) == o.exc = None /\ o.returncode = 0

\* line 192 / line 258: the test that makes a rung win
RungSucceeded(o, exists) == o.exc = None /\ o.returncode = 0 /\ exists

\* the success carrying a length other than the one asked for
SuccessResult_short_by_one(platform, output_path, quality, duration) ==
    [ success |-> TRUE,
      file_path |-> output_path,
      status |-> [tag |-> IF platform = P_youtube THEN "youtube_success"
                          ELSE "twitch_success",
                  quality |-> quality, duration |-> duration],
      actual_duration |-> duration - 1,
      file_size |-> "getsize" ]

\* lines 194-200 / 260-266
SuccessResult(platform, output_path, quality, duration) ==
    [ success |-> TRUE,
      file_path |-> output_path,
      status |-> [tag |-> IF platform = P_youtube THEN "youtube_success"
                          ELSE "twitch_success",
                  quality |-> quality, duration |-> duration],
      actual_duration |-> duration,
      file_size |-> "getsize" ]

\* lines 211-214 / 277-280
ExhaustedResult(platform, duration) ==
    [ success |-> FALSE,
      status |-> [tag |-> IF platform = P_youtube
                          THEN "youtube_failed_all_qualities"
                          ELSE "twitch_failed_all_qualities",
                  duration |-> duration] ]

\* lines 146-149
UnsupportedResult(platform) ==
    [ success |-> FALSE,
      status |-> [tag |-> "unsupported_platform", platform |-> platform] ]

\* lines 309-312
NoRecentVodsResult ==
    [success |-> FALSE, status |-> [tag |-> "no_recent_vods_found"]]

\* lines 314-318
VodSearchFailedResult(e) ==
    [success |-> FALSE, status |-> [tag |-> "twitch_vod_search_failed"]]


-----------------------------------------------------------------------------
(* PlatformResolver: the Twitch VOD indirection.                            *)

\* lines 230-231: a URL that is sent to the VOD listing instead of the ladder
NeedsListing(url) ==
    /\ ~Contains(url, S_videos_dir)
    /\ ~Contains(url, S_clip_dir)
    /\ ~EndsWith(url, S_videos)

\* line 232
videos_url(url) == RStripChar(url, "/") \o S_videos

\* One VOD-listing query (line 296): subprocess.run raises or completes; the
\* first line of its output is no JSON ("invalid"), or decodes to a dict.
Listed(e, rc, entry) == [exc |-> e, returncode |-> rc, entry |-> entry]

NoOutput == [blank |-> TRUE]

InvalidJson == [invalid |-> TRUE]

ListingOutcomes ==
    { Listed("TimeoutExpired", 0, NoOutput),
      Listed(None, 1, NoOutput),
      Listed(None, 0, NoOutput),
      Listed(None, 0, InvalidJson),
      Listed(None, 0, [title |-> "t"]),
      Listed(None, 0, [webpage_url |-> U_twitch_vod, title |-> "t"]),
      Listed(None, 0, [webpage_url |-> <<>>, url |-> U_twitch_clip]),
      Listed(None, 0, [webpage_url |-> U_twitch_vod, title |-> None]),
      Listed(None, 0, [webpage_url |-> U_twitch_channel_slash, title |-> "t"]) }

\* line 302: vod_info.get('webpage_url') or vod_info.get('url')
vod_url(vod_info) ==
    IF Truthy(Get(vod_info, "webpage_url", <<>>))
    THEN vod_info.webpage_url
    ELSE Get(vod_info, "url", <<>>)

\* lines 298-318: what the listing query leads to.  "recurse" is the call of
\* _extract_twitch_sample on the found URL (line 307).
ListingVerdict(o) ==
    IF o.exc # None THEN [kind |-> "return", result |-> VodSearchFailedResult(o.exc)]
    ELSE IF o.returncode # 0 \/ o.entry = NoOutput
    THEN [kind |-> "return", result |-> NoRecentVodsResult]
    ELSE IF o.entry = InvalidJson
    THEN [kind |-> "return", result |-> VodSearchFailedResult("JSONDecodeError")]
    ELSE IF Get(o.entry, "title", "Unknown Title") = None
    THEN [kind |-> "return", result |-> VodSearchFailedResult("TypeError")]
    ELSE IF Truthy(vod_url(o.entry))
    THEN [kind |-> "recurse", url |-> vod_url(o.entry)]
    ELSE [kind |-> "return", result |-> NoRecentVodsResult]

-----------------------------------------------------------------------------
(* Usernames and file names: _extract_username_from_url,                   *)
(* _extract_best_username, _is_empty_value, _is_descriptive_text,           *)
(* _sanitize_filename.                                                      *)

S_youtube_com == <<"y", "o", "u", "t", "u", "b", "e", ".", "c", "o", "m">>

S_youtu_be == <<"y", "o", "u", "t", "u", ".", "b", "e">>

S_twitch_tv == <<"t", "w", "i", "t", "c", "h", ".", "t", "v">>

S_channel_dir == <<"/", "c", "h", "a", "n", "n", "e", "l", "/">>

S_user_dir == <<"/", "u", "s", "e", "r", "/">>

S_c_dir == <<"/", "c", "/">>

S_at == <<"/", "@">>

S_watch_v == <<"/", "w", "a", "t", "c", "h", "?", "v", "=">>

S_youtu_be_dir == <<"y", "o", "u", "t", "u", ".", "b", "e", "/">>

S_twitch_tv_dir == <<"t", "w", "i", "t", "c", "h", ".", "t", "v", "/">>

S_UC == <<"U", "C">>

S_yt_ == <<"y", "t", "_">>

S_user_ == <<"u", "s", "e", "r", "_">>

S_nan == <<"n", "a", "n">>

S_none == <<"n", "o", "n", "e">>

S_null == <<"n", "u", "l", "l">>

S_None == <<"N", "o", "n", "e">>

S_videos_word == <<"v", "i", "d", "e", "o", "s">>

S_clips_word == <<"c", "l", "i", "p", "s">>

S_collections_word == <<"c", "o", "l", "l", "e", "c", "t", "i", "o", "n", "s">>

S_check == <<"c", "h", "e", "c", "k">>

S_pinned == <<"p", "i", "n", "n", "e", "d">>

S_moved == <<"m", "o", "v", "e", "d">>

S_see == <<"s", "e", "e">>

S_bio == <<"b", "i", "o">>

S_link == <<"l", "i", "n", "k">>

S_follow == <<"f", "o", "l", "l", "o", "w">>

S_subscribe == <<"s", "u", "b", "s", "c", "r", "i", "b", "e">>

StartsWith(s, pre) ==
    Len(pre) <= Len(s) /\ SubSeq(s, 1, Len(pre)) = pre

\* s[:n]
Prefix(s, n) == SubSeq(s, 1, PyMin(n, Len(s)))

\* s[-n:]
Suffix(s, n) == SubSeq(s, PyMax(1, Len(s) - n + 1), Len(s))

\* s.count(c) for a one-character c
Count(s, c) == Cardinality({k \in 1..Len(s) : s[k] = c})

DigitChars == <<"0", "1", "2", "3", "4", "5", "6", "7", "8", "9">>

\* str(n) for n >= 0
RECURSIVE PyStrOfNat(_)
PyStrOfNat(n) ==
    IF n < 10 THEN <<DigitChars[n + 1]>>
    ELSE PyStrOfNat(n \div 10) \o <<DigitChars[(n % 10) + 1]>>

\* str(value) for the values a link field can hold
PyStr(v) == IF v = NaN THEN S_nan ELSE IF v = NoValue THEN S_None ELSE v

\* the longest run of characters outside stop that starts at s[k]
RECURSIVE RunFrom(_, _, _)
RunFrom(s, k, stop) ==
    IF k > Len(s) \/ s[k] \in stop THEN <<>>
    ELSE <<s[k]>> \o RunFrom(s, k + 1, stop)

\* the positions where re.search can match  prefix([^stop]+)suffix
MatchStarts(s, prefix, stop, suffix) ==
    {p \in 1..Len(s) :
        /\ p + Len(prefix) - 1 <= Len(s)
        /\ SubSeq(s, p, p + Len(prefix) - 1) = prefix
        /\ LET g == RunFrom(s, p + Len(prefix), stop)
               e == p + Len(prefix) + Len(g)
           IN  /\ g # <<>>
               /\ e + Len(suffix) - 1 <= Len(s)
               /\ SubSeq(s, e, e + Len(suffix) - 1) = suffix}

\* re.search(pattern, s) with one greedy group: group(1) of the leftmost
\* match, NoValue when there is no match
Search(s, pat) ==
    LET starts == MatchStarts(s, pat.prefix, pat.stop, pat.suffix)
    IN  IF starts = {} THEN NoValue
        ELSE LET p == CHOOSE x \in starts : \A y \in starts : x <= y
             IN  RunFrom(s, p + Len(pat.prefix), pat.stop)

Pattern(prefix, stop, suffix) ==
    [prefix |-> prefix, stop |-> stop, suffix |-> suffix]

youtube_patterns ==
    << Pattern(S_channel_dir, {"/", "?"}, <<>>),
       Pattern(S_user_dir, {"/", "?"}, <<>>),
       Pattern(S_c_dir, {"/", "?"}, <<>>),
       Pattern(S_at, {"/", "?"}, <<>>),
       Pattern(S_watch_v, {"&"}, <<>>),
       Pattern(S_youtu_be_dir, {"/", "?"}, <<>>) >>

twitch_patterns ==
    << Pattern(S_twitch_tv_dir, {"/", "?"}, <<>>),
       Pattern(S_twitch_tv_dir, {"/"}, S_videos) >>

\* the YouTube loop: the first pattern that matches decides
RECURSIVE YoutubeName(_, _)
YoutubeName(u, k) ==
    IF k > Len(youtube_patterns) THEN NoValue
    ELSE LET m == Search(u, youtube_patterns[k])
         IN  IF m = NoValue THEN YoutubeName(u, k + 1)
             ELSE LET name == Prefix(m, 20)
                  IN  IF ~StartsWith(name, S_UC) THEN name
                      ELSE S_yt_ \o Suffix(name, 8)

\* the Twitch loop: a match on a reserved path word falls to the next pattern
RECURSIVE TwitchName(_, _)
TwitchName(u, k) ==
    IF k > Len(twitch_patterns) THEN NoValue
    ELSE LET m == Search(u, twitch_patterns[k])
         IN  IF m # NoValue /\ Lower(m) \notin {S_videos_word, S_clips_word,
                                                S_collections_word}
             THEN Prefix(m, 20)
             ELSE TwitchName(u, k + 1)

_extract_username_from_url(u) ==
    IF ~Truthy(u) THEN NoValue
    ELSE IF Contains(u, S_youtube_com) \/ Contains(u, S_youtu_be)
         THEN YoutubeName(u, 1)
    ELSE IF Contains(u, S_twitch_tv) THEN TwitchName(u, 1)
    ELSE NoValue

_is_empty_value(value) ==
    IF value = NoValue \/ value = NaN THEN TRUE
    ELSE Strip(Lower(PyStr(value))) \in {S_nan, <<>>, S_none, S_null}

descriptive_words ==
    <<S_check, S_pinned, S_moved, S_see, S_bio, S_link, S_follow, S_subscribe>>

_is_descriptive_text(text) ==
    IF text = <<>> \/ Len(text) > 30 THEN TRUE
    ELSE LET text_lower == Lower(text)
             word_count == Cardinality({w \in 1..Len(descriptive_words) :
                               Contains(text_lower, descriptive_words[w])})
         IN  word_count >= 1 \/ Count(text, " ") >= 2

username_fields == <<"username", "screen_name", "user_name", "handle">>

\* the identity fields in priority order: the first usable one, or NoValue
RECURSIVE FieldName(_, _)
FieldName(d, k) ==
    IF k > Len(username_fields) THEN NoValue
    ELSE LET value == Get(d, username_fields[k], NoValue)
         IN  IF Truthy(value) /\ ~_is_empty_value(value)
             THEN LET name == Strip(PyStr(value))
                  IN  IF name # <<>> /\ ~_is_descriptive_text(name)
                      THEN name
                      ELSE FieldName(d, k + 1)
             ELSE FieldName(d, k + 1)

\* the ASCII characters 32 to 95 in code-point order
AsciiLow ==
    <<" ", "!", "\"", "#", "$", "%", "&", "'", "(", ")", "*", "+", ",", "-",
      ".", "/", "0", "1", "2", "3", "4", "5", "6", "7", "8", "9", ":", ";",
      "<", "=", ">", "?", "@">> \o UpperCase \o <<"[", "\\", "]", "^", "_">>

\* the ASCII characters 97 to 126 in code-point order; 96, the grave accent,
\* cannot be written in a string of this language and is in no string here
AsciiHigh == LowerCase \o <<"{", "|", "}", "~">>

\* ord(c): the code point of an ASCII character (the model's strings hold no
\* others); it is the order of str comparison and the byte hash(str) reads
CharCode(c) ==
    CASE c = "\t" -> 9
      [] c = "\n" -> 10
      [] c = "\r" -> 13
      [] \E k \in 1..Len(AsciiLow) : AsciiLow[k] = c ->
            31 + (CHOOSE k \in 1..Len(AsciiLow) : AsciiLow[k] = c)
      [] OTHER ->
            96 + (CHOOSE k \in 1..Len(AsciiHigh) : AsciiHigh[k] = c)

\* A 64-bit word is a tuple of four 16-bit limbs, least significant first.
\* The word operations are functions, so that each is applied to values.

\* eight bytes, little-endian, as a word
WordOfBytes[b \in Seq(Nat)] ==
    <<b[1] + 256 * b[2], b[3] + 256 * b[4],
      b[5] + 256 * b[6], b[7] + 256 * b[8]>>

\* a ^ b for numbers of n bits
XorBits[a \in Nat, b \in Nat, n \in Nat] ==
    IF n = 0 THEN 0
    ELSE ((a + b) % 2) + 2 * XorBits[a \div 2, b \div 2, n - 1]

\* x ^ y
WXor[x \in Seq(Nat), y \in Seq(Nat)] ==
    <<XorBits[x[1], y[1], 16], XorBits[x[2], y[2], 16],
      XorBits[x[3], y[3], 16], XorBits[x[4], y[4], 16]>>

\* x + y modulo 2^64
WAdd[x \in Seq(Nat), y \in Seq(Nat)] ==
    LET s1 == x[1] + y[1]
        s2 == x[2] + y[2] + (s1 \div 65536)
        s3 == x[3] + y[3] + (s2 \div 65536)
        s4 == x[4] + y[4] + (s3 \div 65536)
    IN  <<s1 % 65536, s2 % 65536, s3 % 65536, s4 % 65536>>

\* x rotated left by r bits
WRotl[x \in Seq(Nat), r \in Nat] ==
    LET q == r \div 16
        sh == r % 16
        p == <<x[((0 - q) % 4) + 1], x[((1 - q) % 4) + 1],
               x[((2 - q) % 4) + 1], x[((3 - q) % 4) + 1]>>
        up(k) == (p[k] * (2 ^ sh)) % 65536
        down(k) == p[k] \div (2 ^ (16 - sh))
    IN  IF sh = 0 THEN p
        ELSE <<up(1) + down(4), up(2) + down(1),
               up(3) + down(2), up(4) + down(3)>>

\* the four steps of a SipRound on the state v = <<v0, v1, v2, v3>>:
\*   1: v0 += v1; v1 = rotl(v1, 13); v2 += v3; v3 = rotl(v3, 16)
\*   2: v1 ^= v0; v0 = rotl(v0, 32); v3 ^= v2
\*   3: v0 += v3; v3 = rotl(v3, 21); v2 += v1; v1 = rotl(v1, 17)
\*   4: v3 ^= v0; v1 ^= v2; v2 = rotl(v2, 32)
SipStep[v \in Seq(Seq(Nat)), k \in Nat] ==
    CASE k = 1 -> << WAdd[v[1], v[2]], WRotl[v[2], 13],
                     WAdd[v[3], v[4]], WRotl[v[4], 16] >>
      [] k = 2 -> << WRotl[v[1], 32], WXor[v[2], v[1]],
                     v[3], WXor[v[4], v[3]] >>
      [] k = 3 -> << WAdd[v[1], v[4]], WRotl[v[2], 17],
                     WAdd[v[3], v[2]], WRotl[v[4], 21] >>
      [] k = 4 -> << v[1], WXor[v[2], v[3]],
                     WRotl[v[3], 32], WXor[v[4], v[1]] >>

\* one SipRound
SipRound[v \in Seq(Seq(Nat))] ==
    SipStep[SipStep[SipStep[SipStep[v, 1], 2], 3], 4]

\* v3 ^= m, or v0 ^= m
XorInto[v \in Seq(Seq(Nat)), k \in Nat, m \in Seq(Nat)] ==
    [v EXCEPT ![k] = WXor[v[k], m]]

\* one message word m absorbed: v3 ^= m, one round, v0 ^= m
Absorb[v \in Seq(Seq(Nat)), m \in Seq(Nat)] ==
    XorInto[SipRound[XorInto[v, 4, m]], 1, m]

\* the compression loop on a message of n bytes, data the bytes still to
\* absorb: whole 8-byte words first, then the last block (the remaining
\* bytes, zero padding, and the length byte)
Compress[v \in Seq(Seq(Nat)), data \in Seq(Nat), n \in Nat] ==
    IF Len(data) >= 8
    THEN Compress[Absorb[v, WordOfBytes[SubSeq(data, 1, 8)]],
                  SubSeq(data, 9, Len(data)), n]
    ELSE Absorb[v, WordOfBytes[
             data \o SubSeq(<<0, 0, 0, 0, 0, 0, 0>>, Len(data) + 1, 7)
                  \o <<n % 256>>]]

\* the finalization loop: rounds more SipRounds, then v0 ^ v1 ^ v2 ^ v3
Finalize[v \in Seq(Seq(Nat)), rounds \in Nat] ==
    IF rounds = 0 THEN WXor[WXor[v[1], v[2]], WXor[v[3], v[4]]]
    ELSE Finalize[SipRound[v], rounds - 1]

\* SipHash-1-3 of the bytes data under the key (k0, k1): CPython's hash
\* algorithm for str and bytes (sys.hash_info.algorithm = siphash13)
siphash13[k0 \in Seq(Nat), k1 \in Seq(Nat), data \in Seq(Nat)] ==
    Finalize[
        XorInto[Compress[<< WXor[k0, <<25973, 28787, 28005, 29551>>],
                            WXor[k1, <<28525, 28260, 29281, 25711>>],
                            WXor[k0, <<29281, 28261, 26469, 27769>>],
                            WXor[k1, <<25971, 31092, 25698, 29797>>] >>,
                         data, Len(data)],
                3, <<255, 0, 0, 0>>],
        3]

\* CPython's lcg_urandom: size bytes drawn from the 32-bit generator
\* x = x * 214013 + 2531011 started at x0 = hi * 2^16 + lo, each byte
\* (x >> 16) & 255
lcg_urandom[hi \in Nat, lo \in Nat, size \in Nat] ==
    IF size = 0 THEN <<>>
    ELSE LET t == lo * 17405 + 2531011
             newhi == (hi * 17405 + lo * 3 + (t \div 65536)) % 65536
         IN  <<newhi % 256>> \o lcg_urandom[newhi, t % 65536, size - 1]

\* the 24 bytes of the interpreter's hash secret under PYTHONHASHSEED = seed:
\* all zero for seed 0, drawn from lcg_urandom otherwise
HashSecret(seed) ==
    IF seed = 0
    THEN <<0, 0, 0, 0, 0, 0, 0, 0, 0, 0, 0, 0, 0, 0, 0, 0, 0, 0, 0, 0, 0, 0, 0, 0>>
    ELSE lcg_urandom[seed \div 65536, seed % 65536, 24]

\* the bytes of an ASCII string
RECURSIVE Bytes(_)
Bytes(s) == IF s = <<>> THEN <<>> ELSE <<CharCode(Head(s))>> \o Bytes(Tail(s))

\* -2 in place of -1, which CPython keeps for errors
NotMinusOne[h \in Seq(Nat)] ==
    IF h = <<65535, 65535, 65535, 65535>>
    THEN <<65534, 65535, 65535, 65535>>
    ELSE h

\* hash(s) in a process started with PYTHONHASHSEED = seed, as the 64-bit
\* two's complement word it is; 0 for the empty string
PyHash(seed, s) ==
    IF s = <<>> THEN <<0, 0, 0, 0>>
    ELSE LET secret == HashSecret(seed)
         IN  NotMinusOne[siphash13[WordOfBytes[SubSeq(secret, 1, 8)],
                                   WordOfBytes[SubSeq(secret, 9, 16)],
                                   Bytes(s)]]

\* abs(h) of a signed 64-bit word, as an unsigned word
Abs[h \in Seq(Nat)] ==
    IF h[4] < 32768 THEN h
    ELSE WAdd[<<65535 - h[1], 65535 - h[2], 65535 - h[3], 65535 - h[4]>>,
              <<1, 0, 0, 0>>]

\* w % m for an unsigned word w and 0 < m < 32768
WMod[w \in Seq(Nat), m \in Nat] ==
    LET r == 65536 % m
        r2 == (r * r) % m
        r3 == (r2 * r) % m
    IN  ((w[1] % m) + (((w[2] % m) * r) % m) + (((w[3] % m) * r2) % m)
            + (((w[4] % m) * r3) % m)) % m

\* the priorities swapped: an identity field is taken before the URL
_extract_best_username_fields_first(link, u, seed, now) ==
    LET username_from_url == _extract_username_from_url(u)
        from_field == FieldName(link, 1)
    IN  IF from_field # NoValue THEN from_field
        ELSE IF username_from_url # NoValue /\ username_from_url # <<>>
                /\ Len(username_from_url) > 2
             THEN username_from_url
        ELSE IF Truthy(u)
             THEN S_user_ \o PyStrOfNat(WMod[Abs[PyHash(seed, u)], 10000])
             ELSE S_user_ \o PyStrOfNat(now % 10000)

\* now stands for int(time.time()) at the call, seed for the process's hash seed
_extract_best_username(link, u, seed, now) ==
    LET username_from_url == _extract_username_from_url(u)
    IN  IF username_from_url # NoValue /\ username_from_url # <<>>
           /\ Len(username_from_url) > 2
        THEN username_from_url
        ELSE LET from_field == FieldName(link, 1)
             IN  IF from_field # NoValue THEN from_field
                 ELSE IF Truthy(u)
                      THEN S_user_ \o PyStrOfNat(WMod[Abs[PyHash(seed, u)], 10000])
                      ELSE S_user_ \o PyStrOfNat(now % 10000)

\* \w for the characters of the model's strings
WordChars ==
    {UpperCase[k] : k \in 1..Len(UpperCase)} \cup
    {LowerCase[k] : k \in 1..Len(LowerCase)} \cup Digits \cup {"_"}

\* re.sub(r'[^keep]', '', s)
Keep(s, keep) == SelectSeq(s, LAMBDA c : c \in keep)

\* re.sub(r'[from]+', to, s): every maximal run of from becomes one to
RECURSIVE Squeeze(_, _, _)
Squeeze(s, from, to) ==
    IF s = <<>> THEN <<>>
    ELSE IF Head(s) \in from
         THEN IF Len(s) > 1 /\ s[2] \in from THEN Squeeze(Tail(s), from, to)
              ELSE <<to>> \o Squeeze(Tail(s), from, to)
    ELSE <<Head(s)>> \o Squeeze(Tail(s), from, to)

RECURSIVE LStripChar(_, _)
LStripChar(s, c) ==
    IF s # <<>> /\ Head(s) = c THEN LStripChar(Tail(s), c) ELSE s

\* s.strip(c)
StripChar(s, c) == LStripChar(RStripChar(s, c), c)

_sanitize_filename(filename, now) ==
    IF ~Truthy(filename) \/ _is_empty_value(filename)
    THEN S_user_ \o PyStrOfNat(now % 10000)
    ELSE LET s1 == Keep(PyStr(filename), WordChars \cup Whitespace \cup {"-"})
             s2 == Lower(s1)
             s3 == Squeeze(s2, Whitespace, "_")
             s4 == StripChar(Squeeze(s3, {"_"}, "_"), "_")
             s5 == Keep(s4, WordChars)
             s6 == IF Len(s5) > 20 THEN Prefix(s5, 20) ELSE s5
         IN  IF s6 = <<>> \/ Len(s6) < 2
             THEN S_user_ \o PyStrOfNat(now % 10000)
             ELSE s6

-----------------------------------------------------------------------------
(* SampleExtractor: extract_voice_samples, one link at a time.              *)

Idle == [tag |-> "idle"]

link_data == links[i]

\* line 43
url == Get(link_data, "url", <<>>)

\* line 45
platform == Get(link_data, "platform_type", P_unknown)

\* line 58
safe_platform == IF Truthy(platform) THEN Lower(platform) ELSE P_unknown

\* line 60; int(time.time()) grows by at least 2 from one processed link to
\* the next (line 84), the link's index stands for it
filename ==
    [username |-> safe_username, platform |-> safe_platform,
     duration |-> optimal, timestamp |-> i]

\* line 138
output_path == [dir |-> "voice_samples", name |-> filename, ext |-> "mp3"]

\* lines 42-49: a link without a URL is passed over (continue); its username
\* has been resolved by then. The call's time.time() is read as in filename.
SkipLink ==
    /\ pc = "start"
    /\ i <= Len(links)
    /\ ~Truthy(url)
    /\ username' = _extract_best_username(link_data, url, hashseed, i)
    /\ i' = i + 1
    /\ UNCHANGED <<cfg, probe, safe_username, links, pc, optimal, url_now,
                   rung, file_exists, attempts, listings, last, result,
                   extracted, sleeps>>
    /\ UNCHANGED notBatchVars

\* lines 42-51: the next link, with a URL, and its username
BeginLink ==
    /\ pc = "start"
    /\ i <= Len(links)
    /\ Truthy(url)
    /\ pc' = "probe"
    /\ optimal' = 0
    /\ url_now' = url
    /\ rung' = 0
    /\ file_exists' = FALSE
    /\ attempts' = <<>>
    /\ listings' = <<>>
    /\ last' = Idle
    /\ result' = Idle
    /\ probe' = Raises("idle")
    /\ username' = _extract_best_username(link_data, url, hashseed, i)
    /\ UNCHANGED <<cfg, links, i, extracted, sleeps, safe_username>>
    /\ UNCHANGED notBatchVars

\* the dispatch with Twitch as the else branch
Dispatch_twitch_by_default(p, u) ==
    IF p = P_youtube THEN "ladder"
    ELSE IF NeedsListing(u) THEN "listing" ELSE "ladder"

\* lines 141-149 (and 229-233 for Twitch): where _extract_audio_sample goes
Dispatch(p, u) ==
    IF p = P_youtube THEN "ladder"
    ELSE IF p = P_twitch THEN (IF NeedsListing(u) THEN "listing" ELSE "ladder")
    ELSE "record"

\* lines 54-62: the duration probe, the safe username, the filename, the
\* platform dispatch.
\* platform.lower() on a value that is no str raises AttributeError, which
\* nothing in extract_voice_samples catches.
ProbeAndDispatch ==
    /\ pc = "probe"
    /\ \E p \in BatchProbes :
          /\ probe' = p
          /\ optimal' = _get_optimal_duration(cfg, p)
    /\ safe_username' = _sanitize_filename(username, i)
    /\ IF Truthy(platform) /\ ~IsStr(platform)
       THEN /\ pc' = "raised"
            /\ result' = result
       ELSE /\ pc' = Dispatch(platform, url)
            /\ result' = IF Dispatch(platform, url) = "record"
                         THEN UnsupportedResult(platform)
                         ELSE result
    /\ UNCHANGED <<cfg, links, i, url_now, rung, file_exists, attempts,
                   listings, last, extracted, sleeps, username>>
    /\ UNCHANGED notBatchVars

\* lines 282-318: _try_get_recent_twitch_vod on url_now's /videos page
QueryListing ==
    /\ pc = "listing"
    /\ \E o \in ListingOutcomes :
        LET v == ListingVerdict(o)
        IN  /\ IF v.kind = "return" THEN TRUE
               ELSE IF NeedsListing(v.url) THEN Len(listings) + 1 < MaxListings
               ELSE TRUE
            /\ listings' = Append(listings, videos_url(url_now))
            /\ IF v.kind = "return"
               THEN /\ result' = v.result
                    /\ pc' = "record"
                    /\ url_now' = url_now
               ELSE /\ result' = result
                    /\ pc' = Dispatch(P_twitch, v.url)
                    /\ url_now' = v.url
    /\ UNCHANGED <<cfg, probe, username, safe_username, links, i, optimal,
                   rung, file_exists, attempts, last, extracted, sleeps>>
    /\ UNCHANGED notBatchVars

\* the loop given up at the first failed rung
RungVerdict_failure_is_final(won, k, n) ==
    IF won THEN "success" ELSE "exhausted"

\* lines 169-214 / 236-280: where rung k of n leaves the for loop: the return
\* of line 194 / 260, the next pass, or the end of the loop at line 211 / 277
RungVerdict(won, k, n) ==
    IF won THEN "success"
    ELSE IF k = n THEN "exhausted"
    ELSE "next"

\* lines 169-214 / 236-280: one pass of the for loop over quality_options;
\* after the last rung the loop ends and the failure is returned
AttemptRung ==
    /\ pc = "ladder"
    /\ rung < Len(quality_options(platform, cfg, optimal))
    /\ \E o \in RunOutcomes :
        LET option == quality_options(platform, cfg, optimal)[rung + 1]
            exists == file_exists \/ o.wrote
            won == RungSucceeded(o, exists)
            verdict == RungVerdict(won, rung + 1,
                           Len(quality_options(platform, cfg, optimal)))
        IN  /\ file_exists' = exists
            /\ last' = [exc |-> o.exc, returncode |-> o.returncode,
                        exists |-> exists, wrote |-> o.wrote]
            /\ attempts' = Append(attempts,
                   [quality |-> option.quality, timeout |-> option.timeout,
                    duration |-> optimal, url |-> url_now, won |-> won])
            /\ rung' = rung + 1
            /\ IF verdict = "success"
               THEN /\ result' = SuccessResult(platform, output_path,
                                               option.quality, optimal)
                    /\ pc' = "record"
               ELSE IF verdict = "exhausted"
               THEN /\ result' = ExhaustedResult(platform, optimal)
                    /\ pc' = "record"
               ELSE /\ result' = result
                    /\ pc' = "ladder"
    /\ UNCHANGED <<cfg, probe, username, safe_username, links, i, optimal,
                   url_now, listings, extracted, sleeps>>
    /\ UNCHANGED notBatchVars

\* the update with sample_extracted hard-wired
ResultFields_always_extracted(r) ==
    [ sample_extracted |-> TRUE,
      sample_file |-> Get(r, "file_path", None),
      extraction_status |-> r.status,
      sample_duration |-> optimal,
      actual_duration |-> Get(r, "actual_duration", optimal),
      sample_quality |-> cfg.quality,
      processed_username |-> safe_username,
      sample_filename |-> [name |-> filename, ext |-> "mp3"],
      platform_source |-> safe_platform,
      original_username |-> username ]

\* lines 65-76
ResultFields(r) ==
    [ sample_extracted |-> r.success,
      sample_file |-> Get(r, "file_path", None),
      extraction_status |-> r.status,
      sample_duration |-> optimal,
      actual_duration |-> Get(r, "actual_duration", optimal),
      sample_quality |-> cfg.quality,
      processed_username |-> safe_username,
      sample_filename |-> [name |-> filename, ext |-> "mp3"],
      platform_source |-> safe_platform,
      original_username |-> username ]

\* the pause taken on the success branch only
Sleep_on_success_only(r, n) == IF r.success THEN n + 1 ELSE n

\* line 84: time.sleep(2) after the if/else on the result r, in either case
Sleep(r, n) == n + 1

\* lines 65-84: the outcome is written on the link record, a success is
\* appended to extracted_samples, then the 2 s pause
RecordResult ==
    /\ pc = "record"
    /\ links' = [links EXCEPT ![i] = Update(@, ResultFields(result))]
    /\ extracted' = IF result.success THEN Append(extracted, i) ELSE extracted
    /\ sleeps' = Sleep(result, sleeps)
    /\ i' = i + 1
    /\ pc' = "start"
    /\ probe' = Raises("idle")
    /\ UNCHANGED <<cfg, username, safe_username, optimal, url_now, rung,
                   file_exists, attempts, listings, last, result>>
    /\ UNCHANGED notBatchVars

\* lines 31-33 and 86-87: the list is returned
Return ==
    /\ pc = "start"
    /\ i > Len(links)
    /\ pc' = "returned"
    /\ UNCHANGED <<cfg, probe, username, safe_username, links, i, optimal,
                   url_now, rung, file_exists, attempts, listings, last,
                   result, extracted, sleeps>>
    /\ UNCHANGED notBatchVars

-----------------------------------------------------------------------------
(* The name harness: _extract_best_username and _sanitize_filename applied *)
(* to links and strings of their own.                                      *)

\* longest string enumerated character by character for _sanitize_filename
MaxNameLen == 3

\* values of PYTHONHASHSEED a process is started with; without the variable
\* the interpreter draws the 24 secret bytes at random, and any secret these
\* seeds give is one it can draw
HashSeeds == {0, 1, 65537}

\* the hash seed of the batch runs
BatchHashSeeds == {0}

\* the values int(time.time()) takes at a call
Clock == {1234567, 1234569}

U_twitch_short == <<"h", "t", "t", "p", "s", ":", "/", "/", "t", "w", "i", "t", "c", "h", ".", "t", "v", "/", "a", "b">>

U_youtube_channel_id == <<"h", "t", "t", "p", "s", ":", "/", "/", "y", "o", "u", "t", "u", "b", "e", ".", "c", "o", "m", "/", "c", "h", "a", "n", "n", "e", "l", "/", "U", "C", "a", "b", "c", "d", "e", "f", "g", "h", "i", "j", "k">>

U_youtu_be == <<"h", "t", "t", "p", "s", ":", "/", "/", "y", "o", "u", "t", "u", ".", "b", "e", "/", "x", "y", "z">>

N_bob == <<"b", "o", "b">>

N_carol_padded == <<" ", "c", "a", "r", "o", "l", " ">>

N_dave == <<"d", "a", "v", "e">>

N_check_my_bio == <<"c", "h", "e", "c", "k", " ", "m", "y", " ", "b", "i", "o">>

N_long_21 == <<"a", "a", "a", "a", "a", "a", "a", "a", "a", "a", "a", "a", "a", "a", "a", "a", "a", "a", "a", "a", "a">>

N_long_tail == <<"a", "a", "a", "a", "a", "a", "a", "a", "a", "a", "a", "a", "a", "a", "a", "a", "a", "a", "a", " ", "b">>

N_Creator_1 == <<"C", "r", "e", "a", "t", "o", "r", " ", "1">>

N_creator1 == <<"c", "r", "e", "a", "t", "o", "r", "1">>

NameUrls ==
    { <<>>, U_youtube, U_twitch_channel, U_twitch_listing, U_twitch_vod, U_vimeo,
      U_twitch_short, U_youtube_channel_id, U_youtu_be }

\* a link with its identity fields; NoValue stands for a field that is absent
NameLink(u, ident, handle) ==
    LET base == [url |-> u]
        with_name == IF ident = NoValue THEN base
                     ELSE Update(base, [username |-> ident])
    IN  IF handle = NoValue THEN with_name
        ELSE Update(with_name, [handle |-> handle])

NameLinks ==
    { NameLink(u, ident, handle) :
        u \in NameUrls,
        ident \in {NoValue, N_alice, N_bob, N_carol_padded, NaN, S_nan,
                   N_check_my_bio},
        handle \in {NoValue, N_dave} }

NameAlphabet == {"a", "B", "_", "-", " ", "!"}

RECURSIVE NamesUpTo(_)
NamesUpTo(n) ==
    IF n = 0 THEN {<<>>}
    ELSE LET shorter == NamesUpTo(n - 1)
         IN  shorter \cup
             {Append(s, c) : s \in {t \in shorter : Len(t) = n - 1}, c \in NameAlphabet}

NameStrings ==
    NamesUpTo(MaxNameLen) \cup {N_long_21, N_long_tail, N_Creator_1, S_nan, NaN}

\* line 44: username = self._extract_best_username(link_data, url)
ResolveUsername ==
    /\ n_pc = "resolve"
    /\ \E now \in Clock :
          n_best' = _extract_best_username(n_link, Get(n_link, "url", <<>>),
                                           hashseed, now)
    /\ n_raw' = n_best'
    /\ n_pc' = "sanitize"
    /\ UNCHANGED <<hashseed, n_link, n_safe, n_again, n_rerun>>
    /\ UNCHANGED notNameVars

\* line 57: safe_username = self._sanitize_filename(username)
Sanitize ==
    /\ n_pc = "sanitize"
    /\ \E now \in Clock : n_safe' = _sanitize_filename(n_raw, now)
    /\ n_pc' = "again"
    /\ UNCHANGED <<hashseed, n_link, n_best, n_raw, n_again, n_rerun>>
    /\ UNCHANGED notNameVars

\* _sanitize_filename called on a name it returned
SanitizeAgain ==
    /\ n_pc = "again"
    /\ \E now \in Clock : n_again' = _sanitize_filename(n_safe, now)
    /\ n_pc' = "done"
    /\ UNCHANGED <<hashseed, n_link, n_best, n_raw, n_safe, n_rerun>>
    /\ UNCHANGED notNameVars

\* line 44 on the same link in a later run of the program: a new interpreter
\* process draws its own string-hash seed
ResolveInNewProcess ==
    /\ n_pc = "done"
    /\ n_link # <<>>
    /\ \E seed \in HashSeeds, now \in Clock :
          /\ hashseed' = seed
          /\ n_rerun' = _extract_best_username(n_link, Get(n_link, "url", <<>>),
                                               seed, now)
    /\ n_pc' = "rerun"
    /\ UNCHANGED <<n_link, n_best, n_raw, n_safe, n_again>>
    /\ UNCHANGED notNameVars

-----------------------------------------------------------------------------
(* PipelineDriver: main() of main_pipeline.py, run after run against the   *)
(* persisted snapshot store. SnapshotManager, the trigger, the downloader   *)
(* and the filter/detector/verifier/processor stages are collaborators       *)
(* whose code is not part of the sources; the store operations follow the   *)
(* interface of section 4.1 of the specification, the other collaborators   *)
(* are their outcomes.                                                       *)

\* most runs of main() in one behaviour
MaxRuns == 2

\* the value of a snapshot id that is None
NoSnapshot == 0

Account(name) == [username |-> name]

\* what stage 1 can hand over as valid_accounts
AccountLists ==
    { <<>>,
      <<Account(N_alice)>>,
      <<Account(N_alice), Account(N_bob)>>,
      <<Account(N_bob), Account(N_alice)>>,
      <<Account(N_alice), Account(N_dave)>> }

\* bool(l) for a list
NonEmpty(l) == Len(l) > 0

\* what a collaborator stage can hand over: nothing, or a list with entries
Yields == {<<>>, <<"entry">>}

\* s < t for strings, character by character
RECURSIVE Less(_, _)
Less(s, t) ==
    IF t = <<>> THEN FALSE
    ELSE IF s = <<>> THEN TRUE
    ELSE IF Head(s) = Head(t) THEN Less(Tail(s), Tail(t))
    ELSE CharCode(Head(s)) < CharCode(Head(t))

\* sorted(S) for a set of strings
RECURSIVE SortedList(_)
SortedList(S) ==
    IF S = {} THEN <<>>
    ELSE LET m == CHOOSE x \in S : \A y \in S : x = y \/ Less(x, y)
         IN  <<m>> \o SortedList(S \ {m})

\* a fingerprint that keeps the order the usernames came in
Fingerprint_unsorted(usernames) == usernames

\* inputFingerprint: derived from the sorted, deduplicated username set
Fingerprint(usernames) ==
    SortedList({usernames[k] : k \in 1..Len(usernames)})

\* line 53
Usernames(accounts) == [k \in 1..Len(accounts) |-> accounts[k].username]

\* a Snapshot record
Snapshot(id, status, accounts, profiles) ==
    [id |-> id, status |-> status, registeredAccounts |-> accounts,
     resultProfiles |-> profiles]

\* findReusable: the id of the snapshot stored under the fingerprint of the
\* usernames when its status is completed, else none
get_reusable_snapshot(store, usernames) ==
    LET fp == Fingerprint(usernames)
    IN  IF fp \in DOMAIN store /\ store[fp].status = "completed"
        THEN store[fp].id
        ELSE NoSnapshot

\* register: a new pending Snapshot under the fingerprint of its accounts
register_snapshot(store, snapshot_id, accounts) ==
    LET fp == Fingerprint(Usernames(accounts))
    IN  [f \in DOMAIN store \cup {fp} |->
            IF f = fp THEN Snapshot(snapshot_id, "pending", accounts, NoValue)
            ELSE store[f]]

\* updateStatus: the status (and the profiles, when given) written on the
\* record of that id; the registered accounts stay
update_snapshot_status(store, snapshot_id, status, profiles) ==
    [f \in DOMAIN store |->
        IF store[f].id = snapshot_id
        THEN [store[f] EXCEPT !.status = status,
                              !.resultProfiles =
                                  IF profiles = NoValue THEN @ ELSE profiles]
        ELSE store[f]]

\* the status the store holds for a snapshot id, "unknown" when it has none
StatusOf(store, snapshot_id) ==
    IF \E f \in DOMAIN store : store[f].id = snapshot_id
    THEN store[CHOOSE f \in DOMAIN store : store[f].id = snapshot_id].status
    ELSE "unknown"

\* a driver that goes on whatever the stage handed over
AfterStage_no_return(output, next) == next

\* "if not <output>: ... return" after a stage (lines 45-47, 64-66, 75-78,
\* 86-88, 100-102, 114-116)
AfterStage(output, next) == IF NonEmpty(output) THEN next ELSE "returned"

\* a driver that creates a job whatever the lookup returned
reuse_or_create_always_create(existing_snapshot) == "create"

\* line 57: if existing_snapshot
reuse_or_create(existing_snapshot) ==
    IF existing_snapshot # NoSnapshot THEN "reuse" ELSE "create"

\* the first stage that yielded nothing, once known, stays
FirstNothing(stage, output) ==
    IF p_nothing = "none" /\ ~NonEmpty(output) THEN stage ELSE p_nothing

\* main() is started again (a later invocation of the program), after it
\* returned or ended with an exception
StartRun ==
    /\ p_pc \in {"returned", "raised"}
    /\ p_run < MaxRuns
    /\ p_run' = p_run + 1
    /\ p_pc' = "stage1"
    /\ p_valid_accounts' = <<>>
    /\ p_snapshot_id' = NoSnapshot
    /\ p_data' = <<>>
    /\ p_calls' = <<>>
    /\ p_ran' = <<>>
    /\ p_nothing' = "none"
    /\ UNCHANGED <<p_store, p_jobs>>
    /\ UNCHANGED notPipeVars

\* lines 28-47: account validation
Stage1 ==
    /\ p_pc = "stage1"
    /\ \E valid_accounts \in AccountLists :
        /\ p_valid_accounts' = valid_accounts
        /\ p_nothing' = FirstNothing("stage1", valid_accounts)
        /\ p_pc' = AfterStage(valid_accounts, "stage2")
    /\ p_ran' = Append(p_ran, "stage1")
    /\ UNCHANGED <<p_run, p_store, p_jobs, p_snapshot_id, p_data, p_calls>>
    /\ UNCHANGED notPipeVars

\* lines 49-67: reuse a snapshot or create and register one
Stage2 ==
    /\ p_pc = "stage2"
    /\ p_ran' = Append(p_ran, "stage2")
    /\ LET usernames == Usernames(p_valid_accounts)
           existing_snapshot == get_reusable_snapshot(p_store, usernames)
           looked == [op |-> "lookup", id |-> existing_snapshot]
       IN  IF reuse_or_create(existing_snapshot) = "reuse"
           THEN /\ p_snapshot_id' = existing_snapshot
                /\ p_calls' = Append(p_calls, looked)
                /\ p_pc' = "stage3"
                /\ UNCHANGED <<p_store, p_jobs, p_nothing>>
           ELSE \E created \in BOOLEAN :
                LET snapshot_id == IF created THEN p_jobs + 1 ELSE NoSnapshot
                    asked == [op |-> "create", id |-> snapshot_id]
                IN  /\ p_jobs' = IF created THEN p_jobs + 1 ELSE p_jobs
                    /\ p_snapshot_id' = snapshot_id
                    /\ IF snapshot_id = NoSnapshot
                       THEN /\ p_calls' = p_calls \o <<looked, asked>>
                            /\ p_nothing' = "stage2"
                            /\ p_pc' = "returned"
                            /\ UNCHANGED p_store
                       ELSE /\ p_store' = register_snapshot(p_store, snapshot_id,
                                                            p_valid_accounts)
                            /\ p_calls' = p_calls \o
                                 <<looked, asked,
                                   [op |-> "register", id |-> snapshot_id]>>
                            /\ p_pc' = "stage3"
                            /\ UNCHANGED p_nothing
    /\ UNCHANGED <<p_run, p_valid_accounts, p_data>>
    /\ UNCHANGED notPipeVars

\* the status written without looking at the download
DownloadStatus_always_completed(profiles) == "completed"

\* lines 75-80: the status main() writes for what the download returned
DownloadStatus(profiles) ==
    IF NonEmpty(profiles) THEN "completed" ELSE "failed"

\* lines 69-83: wait for the snapshot, download it, write its status
Stage3 ==
    /\ p_pc = "stage3"
    /\ p_ran' = Append(p_ran, "stage3")
    /\ \E profiles \in Yields :
        LET status == DownloadStatus(profiles)
            given == IF NonEmpty(profiles) THEN profiles ELSE NoValue
        IN  /\ p_store' = update_snapshot_status(p_store, p_snapshot_id,
                                                 status, given)
            /\ p_calls' = Append(p_calls,
                   [op |-> "update", id |-> p_snapshot_id,
                    prior |-> StatusOf(p_store, p_snapshot_id),
                    status |-> status, profiles |-> given])
            /\ p_data' = profiles
            /\ p_nothing' = FirstNothing("stage3", profiles)
            /\ p_pc' = AfterStage(profiles, "links")
    /\ UNCHANGED <<p_run, p_jobs, p_valid_accounts, p_snapshot_id>>
    /\ UNCHANGED notPipeVars

\* lines 85-92: external links of the profiles
ExtractLinks ==
    /\ p_pc = "links"
    /\ p_ran' = Append(p_ran, "links")
    /\ \E links_found \in Yields :
        /\ p_data' = links_found
        /\ p_nothing' = FirstNothing("links", links_found)
        /\ p_pc' = AfterStage(links_found, "stage4")
    /\ UNCHANGED <<p_run, p_store, p_jobs, p_valid_accounts, p_snapshot_id,
                   p_calls>>
    /\ UNCHANGED notPipeVars

\* lines 94-106: the YouTube/Twitch filter
Stage4 ==
    /\ p_pc = "stage4"
    /\ p_ran' = Append(p_ran, "stage4")
    /\ \E audio_links \in Yields :
        /\ p_data' = audio_links
        /\ p_nothing' = FirstNothing("stage4", audio_links)
        /\ p_pc' = AfterStage(audio_links, "stage4_5")
    /\ UNCHANGED <<p_run, p_store, p_jobs, p_valid_accounts, p_snapshot_id,
                   p_calls>>
    /\ UNCHANGED notPipeVars

\* lines 108-120: audio content detection
Stage4_5 ==
    /\ p_pc = "stage4_5"
    /\ p_ran' = Append(p_ran, "stage4_5")
    /\ \E audio_detected_links \in Yields :
        /\ p_data' = audio_detected_links
        /\ p_nothing' = FirstNothing("stage4_5", audio_detected_links)
        /\ p_pc' = AfterStage(audio_detected_links, "stage5")
    /\ UNCHANGED <<p_run, p_store, p_jobs, p_valid_accounts, p_snapshot_id,
                   p_calls>>
    /\ UNCHANGED notPipeVars

\* lines 122-138: voice verification; the links with has_voice go on, and
\* main() goes on to stage 6 with or without any
Stage5 ==
    /\ p_pc = "stage5"
    /\ p_ran' = Append(p_ran, "stage5")
    /\ \E confirmed_voice \in Yields :
        /\ p_data' = confirmed_voice
        /\ p_nothing' = FirstNothing("stage5", confirmed_voice)
    /\ p_pc' = "stage6"
    /\ UNCHANGED <<p_run, p_store, p_jobs, p_valid_accounts, p_snapshot_id,
                   p_calls>>
    /\ UNCHANGED notPipeVars

\* lines 140-176: sample extraction (extract_voice_samples, the batch above),
\* only when there is confirmed voice content. The batch returns its list of
\* samples, or raises on a link whose platform_type is not a string (line 58
\* of the extractor): main() does not catch that (line 152) and ends there.
Stage6 ==
    /\ p_pc = "stage6"
    /\ IF NonEmpty(p_data)
       THEN /\ p_ran' = Append(p_ran, "stage6")
            /\ \/ \E extracted_samples \in Yields :
                    /\ p_data' = extracted_samples
                    /\ p_nothing' = FirstNothing("stage6", extracted_samples)
                    /\ p_pc' = "stage8"
               \/ /\ p_pc' = "raised"
                  /\ UNCHANGED <<p_data, p_nothing>>
       ELSE /\ p_pc' = "stage8"
            /\ UNCHANGED <<p_ran, p_data, p_nothing>>
    /\ UNCHANGED <<p_run, p_store, p_jobs, p_valid_accounts, p_snapshot_id,
                   p_calls>>
    /\ UNCHANGED notPipeVars

\* lines 178-206: noise reduction, only when samples were extracted
Stage8 ==
    /\ p_pc = "stage8"
    /\ p_ran' = IF NonEmpty(p_data) THEN Append(p_ran, "stage8") ELSE p_ran
    /\ p_pc' = "stage7"
    /\ UNCHANGED <<p_run, p_store, p_jobs, p_valid_accounts, p_snapshot_id,
                   p_data, p_calls, p_nothing>>
    /\ UNCHANGED notPipeVars

\* lines 208-288: voice-only processing, only when samples were extracted,
\* then the final summary
Stage7 ==
    /\ p_pc = "stage7"
    /\ p_ran' = IF NonEmpty(p_data) THEN Append(p_ran, "stage7") ELSE p_ran
    /\ p_pc' = "returned"
    /\ UNCHANGED <<p_run, p_store, p_jobs, p_valid_accounts, p_snapshot_id,
                   p_data, p_calls, p_nothing>>
    /\ UNCHANGED notPipeVars

-----------------------------------------------------------------------------
(* The quality ladder harness.                                              *)

\* lines 159-167 / 219-227: the ladder a sample extractor builds on entry
BuildLadder ==
    /\ l_pc = "build"
    /\ l_options' = quality_options(l_platform, cfg, l_duration)
    /\ l_pc' = "built"
    /\ UNCHANGED <<l_platform, l_duration>>
    /\ UNCHANGED notLadderVars

-----------------------------------------------------------------------------
(* Specifications.                                                          *)

BatchIdle ==
    /\ links = <<>>
    /\ i = 1
    /\ pc = "off"
    /\ optimal = 0
    /\ url_now = <<>>
    /\ rung = 0
    /\ file_exists = FALSE
    /\ attempts = <<>>
    /\ listings = <<>>
    /\ last = Idle
    /\ result = Idle
    /\ extracted = <<>>
    /\ sleeps = 0
    /\ probe = Raises("idle")
    /\ username = NoValue
    /\ safe_username = NoValue

HarnessIdle ==
    /\ d_probe = Raises("idle")
    /\ d_pc = "off"
    /\ d_total = 0
    /\ d_optimal = 0

PipeIdle ==
    /\ p_pc = "off"
    /\ p_run = 0
    /\ p_store = <<>>
    /\ p_jobs = 0
    /\ p_valid_accounts = <<>>
    /\ p_snapshot_id = NoSnapshot
    /\ p_data = <<>>
    /\ p_calls = <<>>
    /\ p_ran = <<>>
    /\ p_nothing = "none"

LadderIdle ==
    /\ l_pc = "off"
    /\ l_platform = NoValue
    /\ l_duration = 0
    /\ l_options = <<>>

NameIdle ==
    /\ n_pc = "off"
    /\ n_link = <<>>
    /\ n_best = NoValue
    /\ n_raw = NoValue
    /\ n_safe = NoValue
    /\ n_again = NoValue
    /\ n_rerun = NoValue

\* a batch run: extract_voice_samples called on a list of links
Init ==
    /\ cfg \in BatchConfigs
    /\ links \in ListsUpTo(MaxLinks)
    /\ i = 1
    /\ pc = "start"
    /\ optimal = 0
    /\ url_now = <<>>
    /\ rung = 0
    /\ file_exists = FALSE
    /\ attempts = <<>>
    /\ listings = <<>>
    /\ last = Idle
    /\ result = Idle
    /\ extracted = <<>>
    /\ sleeps = 0
    /\ probe = Raises("idle")
    /\ username = NoValue
    /\ safe_username = NoValue
    /\ HarnessIdle
    /\ hashseed \in BatchHashSeeds
    /\ NameIdle
    /\ PipeIdle
    /\ LadderIdle

Next ==
    \/ SkipLink
    \/ BeginLink
    \/ ProbeAndDispatch
    \/ QueryListing
    \/ AttemptRung
    \/ RecordResult
    \/ Return

Spec == Init /\ [][Next]_vars

\* the duration resolver on its own, over every probe outcome
DurInit ==
    /\ cfg \in Configs
    /\ d_probe \in Probes
    /\ d_pc = "probe"
    /\ d_total = 0
    /\ d_optimal = 0
    /\ BatchIdle
    /\ hashseed \in BatchHashSeeds
    /\ NameIdle
    /\ PipeIdle
    /\ LadderIdle

DurNext ==
    \/ ParseProbe
    \/ ResolveDuration

DurSpec == DurInit /\ [][DurNext]_vars

\* username resolution and file-name sanitisation on their own: either a link
\* goes through lines 44 and 57 (resolve, then sanitise the name), or a string
\* is sanitised and the result sanitised again
NameInit ==
    /\ cfg = PipelineConfig
    /\ BatchIdle
    /\ HarnessIdle
    /\ PipeIdle
    /\ LadderIdle
    /\ hashseed \in HashSeeds
    /\ n_best = NoValue
    /\ n_safe = NoValue
    /\ n_again = NoValue
    /\ n_rerun = NoValue
    /\ \/ n_pc = "resolve" /\ n_link \in NameLinks /\ n_raw = NoValue
       \/ n_pc = "sanitize" /\ n_link = <<>> /\ n_raw \in NameStrings

NameNext ==
    \/ ResolveUsername
    \/ Sanitize
    \/ SanitizeAgain
    \/ ResolveInNewProcess

NameSpec == NameInit /\ [][NameNext]_vars

\* main() run up to MaxRuns times on a snapshot store that starts empty
PipeInit ==
    /\ cfg = PipelineConfig
    /\ BatchIdle
    /\ HarnessIdle
    /\ NameIdle
    /\ hashseed \in BatchHashSeeds
    /\ p_pc = "stage1"
    /\ p_run = 1
    /\ p_store = <<>>
    /\ p_jobs = 0
    /\ p_valid_accounts = <<>>
    /\ p_snapshot_id = NoSnapshot
    /\ p_data = <<>>
    /\ p_calls = <<>>
    /\ p_ran = <<>>
    /\ p_nothing = "none"
    /\ LadderIdle

PipeNext ==
    \/ StartRun
    \/ Stage1
    \/ Stage2
    \/ Stage3
    \/ ExtractLinks
    \/ Stage4
    \/ Stage4_5
    \/ Stage5
    \/ Stage6
    \/ Stage8
    \/ Stage7

PipeSpec == PipeInit /\ [][PipeNext]_vars

\* the quality ladder on its own: one of the two sample extractors is called
\* with a duration and builds its quality_options
LadderInit ==
    /\ cfg \in LadderConfigs
    /\ BatchIdle
    /\ HarnessIdle
    /\ NameIdle
    /\ PipeIdle
    /\ hashseed \in BatchHashSeeds
    /\ l_pc = "build"
    /\ l_platform \in {P_youtube, P_twitch}
    /\ l_duration \in 0..MaxDuration
    /\ l_options = <<>>

LadderNext ==
    \/ BuildLadder

LadderSpec == LadderInit /\ [][LadderNext]_vars


-----------------------------------------------------------------------------
(* Vocabulary of the properties.                                            *)

\* the link before position i has just been recorded: its rungs, listings
\* and result are still in attempts, listings and result
JustRecorded ==
    /\ pc \in {"start", "returned"}
    /\ i > 1
    /\ "sample_extracted" \in DOMAIN links[i - 1]

Recorded == links[i - 1]

\* the ladder ran to its end and no rung won
Exhausted ==
    /\ Len(attempts) = Len(youtube_quality_options(cfg, optimal))
    /\ \A k \in 1..Len(attempts) : ~attempts[k].won

FailedAllTags == {"youtube_failed_all_qualities", "twitch_failed_all_qualities"}

\* the probe's output went through _parse_duration_string
ProbeParsed ==
    /\ d_pc \in {"parsed", "done"}
    /\ ~ProbeRaised(d_probe)
    /\ d_probe.returncode = 0
    /\ Strip(d_probe.stdout) # <<>>

\* one to three colon-separated fields, each an integer literal
AdmissibleShape(s) ==
    /\ Len(Split(s, ":")) \in 1..3
    /\ \A k \in 1..Len(Split(s, ":")) : PyInt(Split(s, ":")[k]).ok

\* the second count the three shapes stand for
RECURSIVE SecondsOfFields(_, _)
SecondsOfFields(fields, acc) ==
    IF fields = <<>> THEN acc
    ELSE SecondsOfFields(Tail(fields), 60 * acc + PyInt(Head(fields)).val)

ExpectedSeconds(s) == SecondsOfFields(Split(s, ":"), 0)

\* the probe gave nothing to go by: it raised or timed out, exited nonzero,
\* printed nothing, or printed something of no admissible shape
ProbeFailed(p) ==
    \/ ProbeRaised(p)
    \/ p.returncode # 0
    \/ Strip(p.stdout) = <<>>
    \/ ~AdmissibleShape(Strip(p.stdout))

-----------------------------------------------------------------------------
(* Properties.                                                              *)

\* C1: when rung k is the first rung to succeed, the extraction result and
\* the quality field written on the link record carry rung k's bitrate.
C1_RecordCarriesWinningBitrate ==
    (JustRecorded /\ Recorded.sample_extracted) =>
        /\ result.status.quality = attempts[Len(attempts)].quality
        /\ Recorded.extraction_status.quality = attempts[Len(attempts)].quality
        /\ Recorded.sample_quality = attempts[Len(attempts)].quality

\* C2: when every rung of the ladder fails, the extraction result is the
\* all-qualities failure, the link record gets sample_extracted = false with
\* that failure status, and the loop goes on to the next link.
C2_ExhaustedLadderIsRecordedFailure ==
    /\ (attempts # <<>> /\ Exhausted) =>
          /\ pc \in {"record", "start", "returned"}
          /\ ~result.success
          /\ result.status.tag \in FailedAllTags
    /\ (JustRecorded /\ attempts # <<>> /\ Exhausted) =>
          /\ Recorded.sample_extracted = FALSE
          /\ Recorded.extraction_status.tag \in FailedAllTags
          /\ Recorded.sample_file = None
          /\ (i <= Len(links) => pc = "start")

\* C2 witness: the first link exhausted its ladder and the second is under way
C2_Witness ==
    /\ i = 2 /\ pc = "ladder" /\ rung = 1
    /\ "sample_extracted" \in DOMAIN links[1]
    /\ links[1].sample_extracted = FALSE
    /\ links[1].extraction_status.tag = "youtube_failed_all_qualities"

\* C3: a rung is a success only if the invocation exited 0 and the output
\* file existed when checked; exit 0 without the file is that rung's failure.
C3_SuccessNeedsExitZeroAndFile ==
    /\ Get(result, "success", FALSE) =>
          /\ last.exc = None /\ last.returncode = 0 /\ last.exists
    /\ (attempts # <<>> /\ attempts[Len(attempts)].won) =>
          /\ last.exc = None /\ last.returncode = 0 /\ last.exists
    /\ (attempts # <<>> /\ last.exc = None /\ last.returncode = 0 /\ ~last.exists) =>
          /\ ~attempts[Len(attempts)].won
          /\ ~Get(result, "success", FALSE)

\* C3 witness: a rung exited 0 with no file on disk and the ladder moved on
C3_Witness ==
    /\ pc = "ladder" /\ rung = 2
    /\ last.exc = None /\ last.returncode = 0 /\ ~last.exists
    /\ result = Idle

\* C4: _parse_duration_string gives 3600*H + 60*MM + SS for H:MM:SS,
\* 60*MM + SS for MM:SS, the value for bare seconds, and a parse failure (0)
\* for every other shape.
C4_ParsesThreeShapes ==
    ProbeParsed =>
        d_total = IF AdmissibleShape(Strip(d_probe.stdout))
                  THEN ExpectedSeconds(Strip(d_probe.stdout))
                  ELSE 0

\* C5: when the probe raises or times out, exits nonzero, prints nothing or
\* prints something unparseable, _get_optimal_duration returns max_duration.
C5_FailedProbeGivesMax ==
    (d_pc = "done" /\ ProbeFailed(d_probe)) => d_optimal = cfg.max_duration

\* C5 witness: the probe printed "garbage" and the maximum was returned
C5_Witness ==
    /\ d_pc = "done"
    /\ d_probe = Completed(0, S_garbage)
    /\ d_optimal = cfg.max_duration
    /\ cfg.min_duration < cfg.max_duration

\* C6: with min_duration <= max_duration, whatever the probe did, the
\* duration returned lies in [min_duration, max_duration].
C6_DurationWithinRange ==
    (d_pc = "done" /\ cfg.min_duration <= cfg.max_duration) =>
        /\ cfg.min_duration <= d_optimal
        /\ d_optimal <= cfg.max_duration

\* C6 witness: a 5 s content was raised to the minimum
C6_Witness ==
    /\ d_pc = "done"
    /\ d_total = 5
    /\ cfg.min_duration > 5
    /\ cfg.min_duration <= cfg.max_duration
    /\ d_optimal = cfg.min_duration

\* C7 as stated: every parsed duration t >= 0 comes back clamped,
\* max(min_duration, min(t, max_duration)); read here on H:MM:SS outputs and
\* configurations with min_duration <= max_duration.
C7_EveryParsedDurationClamped ==
    (d_pc = "done" /\ ProbeParsed /\ Len(Split(Strip(d_probe.stdout), ":")) = 3
        /\ AdmissibleShape(Strip(d_probe.stdout)) /\ d_total >= 0
        /\ cfg.min_duration <= cfg.max_duration) =>
        d_optimal = PyMax(cfg.min_duration, PyMin(d_total, cfg.max_duration))

\* C7 amended: every parsed duration t >= 1 comes back clamped,
\* max(min_duration, min(t, max_duration)), with no fallback and no failure
\* because clamping was needed; a parsed 0 is taken as "duration unknown".
C7_PositiveParsedDurationClamped ==
    (d_pc = "done" /\ ProbeParsed /\ d_total >= 1) =>
        d_optimal = PyMax(cfg.min_duration, PyMin(d_total, cfg.max_duration))

\* C7 witness: a content longer than the maximum was cut to the maximum
C7_Witness ==
    /\ d_pc = "done" /\ ProbeParsed
    /\ d_total > cfg.max_duration
    /\ cfg.min_duration < cfg.max_duration
    /\ d_optimal = cfg.max_duration

\* C8: when extract_voice_samples returns, every input link either is in the
\* returned list with sample_extracted = true or carries sample_extracted =
\* false and an extraction_status.
C8_NoSilentDrops ==
    pc = "returned" =>
        \A j \in 1..Len(links) :
            /\ "sample_extracted" \in DOMAIN links[j]
            /\ "extraction_status" \in DOMAIN links[j]
            /\ links[j].sample_extracted <=> (\E k \in 1..Len(extracted) : extracted[k] = j)

\* C9: no fault raised while a link is processed leaves extract_voice_samples;
\* it becomes a recorded failure and the next link is processed.
C9_NoFaultEscapes ==
    pc # "raised"

\* C10: for a platform that is neither youtube nor twitch the extraction
\* result is the unsupported-platform failure, and no downloader rung and no
\* VOD-listing query is made for the link.
C10_UnsupportedPlatformShortCircuits ==
    /\ (i <= Len(links) /\ pc \in {"listing", "ladder", "record"}
            /\ platform \notin {P_youtube, P_twitch}) =>
          /\ pc = "record"
          /\ ~result.success
          /\ result.status = [tag |-> "unsupported_platform", platform |-> platform]
          /\ attempts = <<>>
          /\ listings = <<>>
    /\ (JustRecorded /\ Get(Recorded, "platform_type", P_unknown) \notin {P_youtube, P_twitch}) =>
          /\ Recorded.sample_extracted = FALSE
          /\ Recorded.extraction_status.tag = "unsupported_platform"
          /\ attempts = <<>>
          /\ listings = <<>>

\* C10 witness: a Vimeo link was recorded as unsupported with nothing invoked
C10_Witness ==
    /\ JustRecorded
    /\ Get(Recorded, "platform_type", P_unknown) = P_Vimeo
    /\ Recorded.extraction_status.tag = "unsupported_platform"
    /\ attempts = <<>> /\ listings = <<>>

\* a direct video-on-demand or clip URL
IsDirectVodOrClip(u) == Contains(u, S_videos_dir) \/ Contains(u, S_clip_dir)

\* C11: the ladder is never invoked on a channel-style Twitch URL itself; a
\* channel-style link resolves through the VOD listing or fails.
C11_LadderNeverOnChannelUrl ==
    (i <= Len(links) /\ pc \in {"ladder", "record"} /\ platform = P_twitch) =>
        /\ \A k \in 1..Len(attempts) : IsDirectVodOrClip(attempts[k].url)
        /\ (pc = "record" /\ ~IsDirectVodOrClip(url)) =>
              /\ listings # <<>>
              /\ attempts = <<>> =>
                    result.status.tag \in {"no_recent_vods_found",
                                           "twitch_vod_search_failed"}
\* the name harness has resolved the username of its link
NameResolved ==
    n_pc \in {"sanitize", "again", "done", "rerun"} /\ n_link # <<>>

\* the first identity field of the link that holds a usable username
IdentityName == FieldName(n_link, 1)

\* the username the link's URL yields
UrlName == _extract_username_from_url(n_link.url)

\* C15: a URL-derived username longer than two characters wins over a
\* different valid username in an identity field.
C15_UrlDerivedNameWins ==
    (/\ NameResolved
     /\ UrlName # NoValue
     /\ Len(UrlName) > 2
     /\ IdentityName # NoValue
     /\ IdentityName # UrlName) => n_best = UrlName

\* the link https://youtube.com/@creator1/watch?v=abc with username alice
\* resolved to creator1
C15_Witness ==
    /\ NameResolved
    /\ n_link.url = U_youtube
    /\ IdentityName = N_alice
    /\ n_best = N_creator1

\* C16: sanitising a sanitised name returns it unchanged.
C16_SanitizeIdempotent ==
    n_pc = "done" => n_again = n_safe
\* the links extract_voice_samples has written an outcome on
LinksAttempted ==
    {k \in 1..Len(links) : "sample_extracted" \in DOMAIN links[k]}

\* C17: after each extraction attempt, successful or failed, the 2 s pause is
\* taken before the next link starts: the pauses made equal the links attempted.
C17_DelayAfterEachAttempt ==
    pc # "off" => sleeps = Cardinality(LinksAttempted)

\* a returned batch of two attempted links, the first extracted and the second
\* failed, with two pauses
C17_Witness ==
    /\ pc = "returned"
    /\ Len(links) = 2
    /\ LinksAttempted = {1, 2}
    /\ links[1].sample_extracted
    /\ ~links[2].sample_extracted
    /\ sleeps = 2

\* C18: extraction only enriches a link record: no step removes a field of
\* a link or changes its url or platform_type.
C18_ExtractionOnlyEnriches ==
    [][/\ Len(links') = Len(links)
       /\ \A k \in 1..Len(links) :
            /\ DOMAIN links[k] \subseteq DOMAIN links'[k]
            /\ Get(links'[k], "url", NoValue) = links[k].url
            /\ Get(links'[k], "platform_type", NoValue) =
                  links[k].platform_type]_vars

\* a returned batch whose first link, with a username field, failed and whose
\* second link was extracted, both still carrying their input fields
C18_Witness ==
    /\ pc = "returned"
    /\ Len(links) = 2
    /\ LinksAttempted = {1, 2}
    /\ ~links[1].sample_extracted
    /\ links[1].url = U_vimeo
    /\ links[1].username = N_alice
    /\ links[2].sample_extracted
    /\ links[2].url = U_youtube
    /\ links[2].platform_type = P_youtube

\* C19: for the YouTube link https://youtube.com/@creator1/watch?v=abc with
\* min 30 and max 3600 and the probe output "0:45", the duration resolves to
\* 45 s, the first rung runs at the configured bitrate with timeout 300 s, and
\* on its success the file is creator1_youtube_45s_<ts>.mp3, actual duration 45.
C19_EndToEnd45 ==
    (/\ pc = "record"
     /\ link_data = Link(U_youtube, P_youtube)
     /\ cfg = Config(30, 3600, cfg.quality)
     /\ probe = Completed(0, S_0_45)
     /\ Len(attempts) = 1
     /\ result.success) =>
        /\ optimal = 45
        /\ attempts[1].quality = cfg.quality
        /\ attempts[1].timeout = 300
        /\ result.file_path.name =
              [username |-> N_creator1, platform |-> P_youtube,
               duration |-> 45, timestamp |-> i]
        /\ result.file_path.ext = "mp3"
        /\ result.actual_duration = 45
\* the update_snapshot_status calls of the current run
StatusUpdates == {k \in 1..Len(p_calls) : p_calls[k].op = "update"}

\* C12: update_snapshot_status is only ever applied to a pending snapshot, so
\* a snapshot's status changes once and a completed one is never marked failed.
C12_SingleTerminalTransition ==
    \A k \in StatusUpdates : p_calls[k].prior = "pending"

\* the first snapshot call of the current run, a lookup
Lookup == p_calls[1]

\* the current run has made its reuse-or-create decision
Decided == p_pc # "off" /\ p_calls # <<>>

\* C13: a run that found a reusable snapshot creates no job and registers
\* nothing; a job is created only after a lookup that found none; a snapshot
\* is registered only right after the creation that returned its id; a failed
\* creation registers nothing and ends the run.
C13_ReuseOrCreate ==
    Decided =>
        /\ Lookup.op = "lookup"
        /\ \A k \in 2..Len(p_calls) :
              /\ p_calls[k].op = "create" => k = 2 /\ Lookup.id = NoSnapshot
              /\ p_calls[k].op = "register" =>
                    /\ p_calls[k - 1].op = "create"
                    /\ p_calls[k - 1].id = p_calls[k].id
                    /\ p_calls[k].id # NoSnapshot
              /\ (p_calls[k].op = "create" /\ p_calls[k].id = NoSnapshot) =>
                    /\ k = Len(p_calls)
                    /\ p_pc = "returned"
                    /\ p_snapshot_id = NoSnapshot

\* a second run that reused the snapshot of the first: one job in all, and no
\* creation or registration among its calls
C13_Witness ==
    /\ p_pc = "returned"
    /\ p_run = 2
    /\ Decided
    /\ Lookup.id # NoSnapshot
    /\ p_snapshot_id = Lookup.id
    /\ p_jobs = 1
    /\ \A k \in 1..Len(p_calls) : p_calls[k].op \in {"lookup", "update"}

\* the username lists a lookup is asked about
UsernameLists ==
    {Usernames(a) : a \in AccountLists} \cup
    {<<N_bob>>, <<N_alice, N_alice>>, <<N_alice, N_bob, N_dave>>}

Members(l) == {l[k] : k \in 1..Len(l)}

\* the completed snapshots of the store registered for exactly these names
CompletedFor(names) ==
    {p_store[f].id : f \in {g \in DOMAIN p_store :
        /\ p_store[g].status = "completed"
        /\ Members(Usernames(p_store[g].registeredAccounts)) = names}}

\* C14: reuse is by exact set equality of the usernames: lists with the same
\* members in any order get the same answer, and the answer is a snapshot only
\* when that snapshot is completed and was registered for exactly those names.
C14_ReuseByExactSet ==
    \A l1 \in UsernameLists :
        LET found == get_reusable_snapshot(p_store, l1)
        IN  /\ \A l2 \in UsernameLists :
                  Members(l1) = Members(l2) =>
                      get_reusable_snapshot(p_store, l2) = found
            /\ IF CompletedFor(Members(l1)) = {} THEN found = NoSnapshot
               ELSE found \in CompletedFor(Members(l1))

\* the second run asked for bob, alice and got the snapshot the first run
\* registered for alice, bob, while the store has nothing completed for alice
\* alone
C14_Witness ==
    /\ p_run = 2
    /\ Decided
    /\ Usernames(p_valid_accounts) = <<N_bob, N_alice>>
    /\ Lookup.id # NoSnapshot
    /\ \E f \in DOMAIN p_store :
          /\ p_store[f].id = Lookup.id
          /\ Usernames(p_store[f].registeredAccounts) = <<N_alice, N_bob>>
    /\ get_reusable_snapshot(p_store, <<N_alice>>) = NoSnapshot

\* the stages of main() in the order it runs them
StageOrder ==
    <<"stage1", "stage2", "stage3", "links", "stage4", "stage4_5", "stage5",
      "stage6", "stage8", "stage7">>

StageIndex(s) == CHOOSE k \in 1..Len(StageOrder) : StageOrder[k] = s

\* C20: once a stage has yielded nothing, no later stage's processing is
\* executed in that run.
C20_ShortCircuit ==
    p_nothing # "none" =>
        \A k \in 1..Len(p_ran) : StageIndex(p_ran[k]) <= StageIndex(p_nothing)

\* a run that went through verification, found no confirmed voice link and
\* returned without extraction, noise reduction or voice processing
C20_Witness ==
    /\ p_pc = "returned"
    /\ p_nothing = "stage5"
    /\ p_ran = SubSeq(StageOrder, 1, 7)
\* the base timeouts of the two ladders, rung by rung
BaseTimeouts(p) ==
    IF p = P_youtube THEN <<300, 240, 180, 120>> ELSE <<400, 350, 300, 250>>

\* max(1, d div 300) written out
Multiplier(d) == IF d < 300 THEN 1 ELSE d \div 300

\* C21: every rung's timeout is its base timeout times max(1, d div 300);
\* the multiplier is at least 1 and does not fall as d grows; the first
\* YouTube rung gets 300 s for d = 45 and 3600 s for d = 3600
C21_TimeoutScaling ==
    l_pc = "built" =>
        /\ Len(l_options) = 4
        /\ \A k \in 1..4 :
              l_options[k].timeout
                  = BaseTimeouts(l_platform)[k] * Multiplier(l_duration)
        /\ timeout_multiplier(l_duration) >= 1
        /\ l_duration > 0 =>
              timeout_multiplier(l_duration - 1)
                  <= timeout_multiplier(l_duration)
        /\ (l_platform = P_youtube /\ l_duration = 45) =>
              l_options[1].timeout = 300
        /\ (l_platform = P_youtube /\ l_duration = 3600) =>
              l_options[1].timeout = 3600

C21_Witness ==
    /\ l_pc = "built"
    /\ l_platform = P_youtube
    /\ l_duration = 3600
    /\ l_options[1].timeout = 3600
\* the bitrate a quality string asks the downloader for, in kbit/s
Bitrate(q) ==
    CASE q = "192" -> 192
      [] q = "128" -> 128
      [] q = "96" -> 96
      [] q = "64" -> 64

\* C23: whatever quality the extractor is configured with, the bitrates of
\* the ladder never rise from one rung to the next
C23_HighestQualityFirst ==
    l_pc = "built" =>
        \A k \in 1..(Len(l_options) - 1) :
            Bitrate(l_options[k + 1].quality) <= Bitrate(l_options[k].quality)
\* the latest invocation failed line 192 / 258 in one of the four ways
LastFailed ==
    \/ last.exc = "TimeoutExpired"
    \/ last.exc \notin {None, "TimeoutExpired"}
    \/ last.exc = None /\ last.returncode # 0
    \/ last.exc = None /\ last.returncode = 0 /\ ~last.exists

\* C22: the rungs are attempted in list order; a rung that timed out, exited
\* nonzero, left no file or raised is followed by the next rung; a rung is
\* attempted only after every earlier one failed, and none after a success
C22_LadderProgression ==
    (pc \in {"ladder", "record"} /\ attempts # <<>>) =>
        /\ rung = Len(attempts)
        /\ \A k \in 1..Len(attempts) :
              /\ attempts[k].quality
                    = quality_options(platform, cfg, optimal)[k].quality
              /\ attempts[k].timeout
                    = quality_options(platform, cfg, optimal)[k].timeout
        /\ \A k \in 1..(Len(attempts) - 1) : ~attempts[k].won
        /\ attempts[Len(attempts)].won = ~LastFailed
        /\ (LastFailed /\ Len(attempts) < 4) => pc = "ladder"
        /\ attempts[Len(attempts)].won => pc = "record"
        /\ pc = "record" =>
              (attempts[Len(attempts)].won \/ Len(attempts) = 4)

\* C22 witness: the third rung won after the first two failed
C22_Witness ==
    /\ pc = "record"
    /\ Len(attempts) = 3
    /\ ~attempts[1].won /\ ~attempts[2].won /\ attempts[3].won
    /\ result.success
\* C24: a Twitch link costs at most one VOD-listing query: the URL the
\* listing resolves goes to the ladder and is not resolved again
C24_AtMostOneListing ==
    /\ Len(listings) <= 1
    /\ (pc = "ladder" /\ listings # <<>>) => ~NeedsListing(url_now)
\* C27: when the ladder returns a success, the file found at the output path
\* was written by the invocation of the rung that won
C27_WinningRungWroteTheFile ==
    (pc = "record" /\ attempts # <<>> /\ attempts[Len(attempts)].won) =>
        last.wrote
\* C28: on every successful extraction the actual_duration written on the
\* link record is the requested duration, the record's sample_duration
C28_ActualDurationIsRequested ==
    /\ (pc = "record" /\ result.success) => result.actual_duration = optimal
    /\ \A k \in 1..Len(links) :
          ("sample_extracted" \in DOMAIN links[k]
                /\ links[k].sample_extracted) =>
              links[k].actual_duration = links[k].sample_duration

\* C28 witness: a sample asked for at 3600 s was extracted and recorded
C28_Witness ==
    /\ JustRecorded
    /\ Recorded.sample_extracted
    /\ Recorded.sample_duration = 3600
    /\ Recorded.actual_duration = 3600
\* the snapshots the current run registered as pending
Registrations == {k \in 1..Len(p_calls) : p_calls[k].op = "register"}

\* the stages the current run has executed
StagesRan == {p_ran[k] : k \in 1..Len(p_ran)}

\* C26: a run that registered a snapshot updates its status before it ends:
\* completed with the profiles when the download returned some, failed when
\* it returned nothing; completed is never written without profiles, and link
\* extraction starts only after completed was written
C26_RegisteredSnapshotIsSettled ==
    /\ \A k \in Registrations :
          p_pc \in {"returned", "raised", "links"} =>
              \E j \in StatusUpdates :
                  /\ j > k
                  /\ p_calls[j].id = p_calls[k].id
                  /\ p_calls[j].status \in {"completed", "failed"}
    /\ \A j \in StatusUpdates :
          /\ p_calls[j].status = "completed" =>
                /\ p_calls[j].profiles # NoValue
                /\ NonEmpty(p_calls[j].profiles)
          /\ p_calls[j].status = "failed" =>
                /\ p_calls[j].profiles = NoValue
                /\ p_nothing = "stage3"
                /\ p_pc = "returned"
                /\ "links" \notin StagesRan
    /\ p_nothing = "stage3" =>
          \E j \in StatusUpdates : p_calls[j].status = "failed"
    /\ (p_pc = "links" \/ "links" \in StagesRan) =>
          \E j \in StatusUpdates :
              /\ p_calls[j].status = "completed"
              /\ p_calls[j].id = p_snapshot_id
    /\ p_pc = "links" =>
          p_calls[Len(p_calls)].profiles = p_data

\* C26 witness: a run registered a new snapshot, wrote completed for it and
\* went on to extract links
C26_Witness ==
    /\ Registrations # {}
    /\ "links" \in StagesRan
    /\ \E j \in StatusUpdates :
          /\ p_calls[j].status = "completed"
          /\ p_calls[j].prior = "pending"
\* the names "user_" followed by a number below 10000
GeneratedIds == {S_user_ \o PyStrOfNat(n) : n \in 0..9999}

\* the link's URL yields no username of more than two characters
NoUrlName == UrlName = NoValue \/ Len(UrlName) <= 2

\* C25: without a URL-derived username of more than two characters the result
\* is the first usable identity field; failing that, for a non-empty URL, an id
\* fixed by the URL alone (the same URL resolves to the same id again); the
\* time-based id is returned only for an empty URL
C25_FieldThenUrlIdThenTimeId ==
    (NameResolved /\ NoUrlName) =>
        IF IdentityName # NoValue THEN n_best = IdentityName
        ELSE IF n_link.url # <<>>
        THEN /\ n_best \in GeneratedIds
             /\ n_pc = "rerun" => n_rerun = n_best
        ELSE \E now \in Clock : n_best = S_user_ \o PyStrOfNat(now % 10000)

====
